---- MODULE Spec2Model ----
(***************************************************************************)
(* Real-time chat core of the `communications` app: the membership table,  *)
(* the message table, the WebSocket consumer (connect / receive /          *)
(* disconnect), the REST message create, and the pre_save / post_save      *)
(* signal pair that derives and publishes the broadcast event.             *)
(***************************************************************************)
EXTENDS Integers, Sequences, FiniteSets, TLC

\* ------------------------------------------------------------------ bounds
MaxMessages == 1
MaxClock == 2

\* ------------------------------------------------------------- universes
Users == {"u1", "u2"}
Anonymous == "anon"
None == "None"
Conversations == {1, 2}
ConvIds == {1, 2, 3}
Conns == {1, 2}

VARIABLES
    participants,             \* ConversationParticipant rows
    messages,                 \* Message rows, indexed by primary key
    now,                      \* timezone.now()
    conns,                    \* per connection: status, scope user, conversation, close code
    groups,                   \* channel layer: conversation id -> registered connections
    _previous_message_state,  \* module-level snapshot dictionary of signals.py
    outbox,                   \* frames sent to each connection by the last step
    errors_logged,            \* logger.error records written by the last step
    conversations,            \* ids of the Conversation rows
    team_members,             \* Team.members of the team
    judges,                   \* Hackathon.judges of the hackathon
    tasks,                    \* requests in flight: worker -> program counter and locals
    notifications,            \* Notification rows
    email_notifications,      \* EmailNotification rows
    sent_mail,                \* messages handed to send_mail
    replica,                  \* a client's copy of the messages, built from the frames it got
    last                      \* the operation handled by the last step

\* the tables of the other apps and the requests in flight
others == <<conversations, team_members, judges, tasks, notifications, email_notifications,
            sent_mail, replica>>

vars == <<participants, messages, now, conns, groups, _previous_message_state, outbox,
          errors_logged, last, others>>

NoFrames == [k \in Conns |-> <<>>]

\* ------------------------------------------------------ membership table
\* ConversationParticipant.objects.filter(conversation_id=c, user=u)
ParticipantRows(c, u) == {p \in participants : p.conversation = c /\ p.user = u}

\* ConversationConsumer._is_participant
_is_participant_noauth(c, user) == TRUE
_is_participant(c, user) ==
    IF user = Anonymous THEN FALSE ELSE ParticipantRows(c, user) # {}

\* the can-post check shared by _create_message and perform_create
CanPostExists(c, user) == ParticipantRows(c, user) # {}
CanPost(c, user) == \E p \in ParticipantRows(c, user) : p.can_post

\* ------------------------------------------------------------- strings
\* str.strip(): drop leading and trailing whitespace
RECURSIVE LStrip(_)
LStrip(s) == IF s # <<>> /\ Head(s) = " " THEN LStrip(Tail(s)) ELSE s
RECURSIVE RStrip(_)
RStrip(s) == IF s # <<>> /\ s[Len(s)] = " " THEN RStrip(SubSeq(s, 1, Len(s) - 1)) ELSE s
Strip(s) == RStrip(LStrip(s))

\* ------------------------------------------------------ python dict.get
\* d.get(key, default) on a JSON object / dict given as a function on keys
DictGet(d, key, default) == IF key \in DOMAIN d THEN d[key] ELSE default
EmptyDict == <<>>

\* ---------------------------------------------------- JWTAuthMiddleware
\* parse_qs(query_string)['token'][0]: blank values are dropped by parse_qs
QueryToken(query) ==
    LET vals == SelectSeq(query, LAMBDA v : v # "")
    IN IF vals # <<>> THEN vals[1] ELSE None

\* the first `authorization` header decides (the loop breaks on it)
HeaderToken(headers) ==
    LET auth == SelectSeq(headers, LAMBDA h : h.name = "authorization")
    IN IF auth = <<>> THEN None
       ELSE IF auth[1].scheme = "bearer" THEN auth[1].credentials
       ELSE None

\* JWTAuthentication.get_validated_token + get_user: the user, or an exception
TokenUser ==
    [t \in {"tok_u1", "tok_u2", "tok_bad", "tok_ghost"} |->
        CASE t = "tok_u1" -> "u1"
          [] t = "tok_u2" -> "u2"
          [] OTHER -> None]

AuthTokenHeaderFirst(query, headers) ==
    IF HeaderToken(headers) # None /\ HeaderToken(headers) # ""
    THEN HeaderToken(headers) ELSE QueryToken(query)
AuthToken(query, headers) ==
    IF QueryToken(query) # None THEN QueryToken(query) ELSE HeaderToken(headers)

\* JWTAuthMiddleware.__call__: the value of scope['user'] handed to the consumer
JWTAuthMiddleware(query, headers) ==
    LET token == AuthToken(query, headers)
    IN IF token # None /\ token # "" /\ TokenUser[token] # None
       THEN TokenUser[token]
       ELSE Anonymous

\* --------------------------------------------------------- message table
\* Message.edited_at is nullable: 0 stands for NULL
Null == 0

\* Message.objects.get(id=message_id, conversation_id=c): the row exists
MessageInConversationAny(message_id, c) == message_id \in DOMAIN messages
MessageInConversation(message_id, c) ==
    /\ message_id \in DOMAIN messages
    /\ messages[message_id].conversation = c

\* ---------------------------------------------------------- signals.py
\* store_message_state (pre_save): snapshot the persisted row under its pk
store_message_state(pk) ==
    IF pk # Null /\ pk \in DOMAIN messages
    THEN [x \in DOMAIN _previous_message_state \cup {pk} |->
            IF x = pk
            THEN [content |-> messages[pk].content,
                  is_deleted |-> messages[pk].is_deleted,
                  edited_at |-> messages[pk].edited_at]
            ELSE _previous_message_state[x]]
    ELSE _previous_message_state

\* the if/elif chain of broadcast_message_changes; "none" is its else branch
EventTypeNoDiff(created, instance, previous_state) ==
    IF created THEN "chat.message"
    ELSE IF instance.is_deleted THEN "chat.message_deleted"
    ELSE "chat.message_updated"
EventType(created, instance, previous_state) ==
    LET was_deleted_before == DictGet(previous_state, "is_deleted", FALSE)
    IN IF created /\ ~instance.is_deleted THEN "chat.message"
       ELSE IF instance.is_deleted /\ ~was_deleted_before THEN "chat.message_deleted"
       ELSE IF /\ ~created
               /\ ~instance.is_deleted
               /\ ( \/ "content" \notin DOMAIN previous_state
                    \/ previous_state["content"] # instance.content )
            THEN "chat.message_updated"
       ELSE "none"

\* the payload built for each event type
Payload(event_type, pk, instance) ==
    IF event_type = "chat.message_deleted"
    THEN [id |-> pk, message_id |-> pk]
    ELSE [id |-> pk, sender_id |-> instance.sender, content |-> instance.content,
          created_at |-> instance.created_at, edited_at |-> instance.edited_at,
          is_deleted |-> instance.is_deleted]

\* chat_message / chat_message_updated / chat_message_deleted: the frame a
\* registered consumer sends to its client for a group event
ConsumerFrame(event_type, payload) ==
    [event |-> CASE event_type = "chat.message" -> "message"
                 [] event_type = "chat.message_updated" -> "message_updated"
                 [] event_type = "chat.message_deleted" -> "message_deleted",
     data |-> payload]

ErrorFrame(text) == [event |-> "error", data |-> [message |-> text]]

\* channel_layer.group_send(group_name, ...): every connection registered in
\* the group of the instance's conversation handles the event
GroupSendExcludingSender(c, k, frame) ==
    [x \in Conns |-> IF x \in groups[c] /\ x # k THEN <<frame>> ELSE <<>>]
GroupSend(c, k, frame) ==
    [x \in Conns |-> IF x \in groups[c] THEN <<frame>> ELSE <<>>]

\* outcomes of the publish: delivered, or group_send raises (layer unreachable)
LayerOutcomes == {"ok", "raise"}
\* ... or get_channel_layer() returns None (no layer configured)
LayerStates == LayerOutcomes \cup {"absent"}

\* broadcast_message_changes (post_save) for the saved `instance`, whose save
\* was issued on connection k (0 for a REST request): the frames it delivers
BroadcastFrames(pk, instance, created, snapshots, layer, k) ==
    LET event_type == EventType(created, instance, DictGet(snapshots, pk, EmptyDict))
    IN IF event_type = "none" \/ layer \in {"raise", "absent"} THEN NoFrames
       ELSE GroupSend(instance.conversation, k,
                      ConsumerFrame(event_type, Payload(event_type, pk, instance)))

\* ... and the snapshot dictionary it leaves: the entry is dropped on the
\* no-event branch and after a successful publish, and kept when group_send raises
BroadcastCleanup(pk, instance, created, snapshots, layer) ==
    LET event_type == EventType(created, instance, DictGet(snapshots, pk, EmptyDict))
    IN IF layer = "absent" \/ (event_type # "none" /\ layer = "raise") THEN snapshots
       ELSE [x \in DOMAIN snapshots \ {pk} |-> snapshots[x]]

\* ... and what its except branch logs: the pk of the message whose publish raised
BroadcastLog(pk, instance, created, snapshots, layer) ==
    LET event_type == EventType(created, instance, DictGet(snapshots, pk, EmptyDict))
    IN IF event_type # "none" /\ layer = "raise" THEN <<pk>> ELSE <<>>

\* the event type published by the save ("none" when nothing reaches the group)
Published(pk, instance, created, snapshots, layer) ==
    IF layer \in {"raise", "absent"} THEN "none"
    ELSE EventType(created, instance, DictGet(snapshots, pk, EmptyDict))

\* ------------------------------------------------------------ bookkeeping
EmptySnapshots == [x \in {} |-> EmptyDict]
NoRequest == [kind |-> "none"]
Op(op, k, req, outcome, pk, layer, published) ==
    [op |-> op, conn |-> k, req |-> req, outcome |-> outcome,
     pk |-> pk, layer |-> layer, published |-> published]
\* no handler has run since the clients last read their sockets
Idle == Op("idle", 0, NoRequest, "ok", 0, "ok", "none")

\* a worker that handles no request
Workers == {1, 2}
NoTask == [pc |-> "idle"]

\* a client that has received no frame
EmptyReplica == [x \in {} |-> EmptyDict]

\* the other apps at rest: no team member, no judge, nothing sent
OthersAtRest ==
    /\ replica = EmptyReplica
    /\ team_members = {}
    /\ judges = {}
    /\ tasks = [w \in Workers |-> NoTask]
    /\ notifications = {}
    /\ email_notifications = {}
    /\ sent_mail = <<>>

ConnectingConn == [status |-> "Connecting", user |-> Anonymous, conversation |-> 0, close_code |-> 0]
ClosedConn(code) == [status |-> "Closed", user |-> Anonymous, conversation |-> 0, close_code |-> code]

Init ==
    /\ participants = {[conversation |-> 2, user |-> u, can_post |-> TRUE] : u \in Users}
    /\ messages = <<>>
    /\ now = 1
    /\ conns = [k \in Conns |-> ConnectingConn]
    /\ groups = [c \in ConvIds |-> {}]
    /\ _previous_message_state = EmptySnapshots
    /\ outbox = NoFrames
    /\ errors_logged = <<>>
    /\ last = Idle
    /\ conversations = Conversations
    /\ OthersAtRest

\* ---------------------------------------------------- the save pipeline
\* Model.save(update_fields=fields) of an existing row with its two signal
\* receivers: pre_save snapshot, UPDATE of the named columns, post_save publish
SaveExistingRollback(pk, instance, fields, layer, k) ==
    LET snapshots == store_message_state(pk)
    IN /\ messages' = IF layer = "raise" THEN messages
                      ELSE [messages EXCEPT ![pk] =
                              [f \in DOMAIN messages[pk] |->
                                  IF f \in fields THEN instance[f] ELSE messages[pk][f]]]
       /\ _previous_message_state' = BroadcastCleanup(pk, instance, FALSE, snapshots, layer)
       /\ outbox' = BroadcastFrames(pk, instance, FALSE, snapshots, layer, k)
       /\ errors_logged' = BroadcastLog(pk, instance, FALSE, snapshots, layer)
SaveExisting(pk, instance, fields, layer, k) ==
    LET snapshots == store_message_state(pk)
    IN /\ messages' = [messages EXCEPT ![pk] =
                          [f \in DOMAIN messages[pk] |->
                              IF f \in fields THEN instance[f] ELSE messages[pk][f]]]
       /\ _previous_message_state' = BroadcastCleanup(pk, instance, FALSE, snapshots, layer)
       /\ outbox' = BroadcastFrames(pk, instance, FALSE, snapshots, layer, k)
       /\ errors_logged' = BroadcastLog(pk, instance, FALSE, snapshots, layer)

\* Message.objects.create(...): pre_save sees no pk, INSERT, post_save publish
SaveCreatedFromSocketOnly(instance, layer, k) ==
    LET pk == Len(messages) + 1
        snapshots == _previous_message_state
    IN /\ messages' = Append(messages, instance)
       /\ _previous_message_state' = BroadcastCleanup(pk, instance, TRUE, snapshots, layer)
       /\ outbox' = IF k = 0 THEN NoFrames
                    ELSE BroadcastFrames(pk, instance, TRUE, snapshots, layer, k)
       /\ errors_logged' = BroadcastLog(pk, instance, TRUE, snapshots, layer)
SaveCreated(instance, layer, k) ==
    LET pk == Len(messages) + 1
        snapshots == _previous_message_state
    IN /\ messages' = Append(messages, instance)
       /\ _previous_message_state' = BroadcastCleanup(pk, instance, TRUE, snapshots, layer)
       /\ outbox' = BroadcastFrames(pk, instance, TRUE, snapshots, layer, k)
       /\ errors_logged' = BroadcastLog(pk, instance, TRUE, snapshots, layer)

NewMessage(c, user, content) ==
    [conversation |-> c, sender |-> user, content |-> content,
     created_at |-> now, edited_at |-> Null, is_deleted |-> FALSE]

\* Message.edit: the in-memory instance after the assignments
EditedUnstamped(msg, new_content) == [msg EXCEPT !.content = new_content]
Edited(msg, new_content) == [msg EXCEPT !.content = new_content, !.edited_at = now]
\* Message.soft_delete: the in-memory instance after the assignment
SoftDeletedNot(msg) == msg
SoftDeleted(msg) == [msg EXCEPT !.is_deleted = TRUE]

\* ------------------------------------------------------------- connect
\* JWTAuthMiddleware.__call__ followed by ConversationConsumer.connect
Connect(k, c, query, headers) ==
    LET user == JWTAuthMiddleware(query, headers)
        req == [kind |-> "connect", conversation |-> c, user |-> user,
                query |-> query, headers |-> headers]
    IN /\ last = Idle
       /\ conns[k].status = "Connecting"
       /\ IF ~_is_participant(c, user)
          THEN /\ conns' = [conns EXCEPT ![k] = ClosedConn(4403)]
               /\ groups' = groups
               /\ last' = Op("connect", k, req, "rejected", 0, "ok", "none")
          ELSE /\ conns' = [conns EXCEPT ![k] =
                              [status |-> "Open", user |-> user, conversation |-> c, close_code |-> 0]]
               /\ groups' = [groups EXCEPT ![c] = @ \cup {k}]
               /\ last' = Op("connect", k, req, "accepted", 0, "ok", "none")
       /\ outbox' = NoFrames /\ errors_logged' = <<>>
       /\ UNCHANGED <<participants, messages, now, _previous_message_state, others>>

\* ConversationConsumer.disconnect of an accepted connection (a rejected one
\* never set group_name and its disconnect does nothing)
DisconnectKeepsGroup(k) ==
    /\ last = Idle
    /\ conns[k].status = "Open"
    /\ groups' = groups
    /\ conns' = [conns EXCEPT ![k] = ClosedConn(1000)]
    /\ outbox' = NoFrames /\ errors_logged' = <<>>
    /\ last' = Op("disconnect", k, NoRequest, "ok", 0, "ok", "none")
    /\ UNCHANGED <<participants, messages, now, _previous_message_state, others>>
Disconnect(k) ==
    /\ last = Idle
    /\ conns[k].status = "Open"
    /\ groups' = [groups EXCEPT ![conns[k].conversation] = @ \ {k}]
    /\ conns' = [conns EXCEPT ![k] = ClosedConn(1000)]
    /\ outbox' = NoFrames /\ errors_logged' = <<>>
    /\ last' = Op("disconnect", k, NoRequest, "ok", 0, "ok", "none")
    /\ UNCHANGED <<participants, messages, now, _previous_message_state, others>>

\* ------------------------------------------------------------- receive
\* self.send of an error frame to the issuing connection; nothing else changes
ReplyErrorBroadcast(k, text_data, text) ==
    /\ outbox' = [x \in Conns |->
                     IF x = k \/ x \in groups[conns[k].conversation]
                     THEN <<ErrorFrame(text)>> ELSE <<>>]
    /\ last' = Op("receive", k, text_data, "error", 0, "ok", "none")
    /\ errors_logged' = <<>>
    /\ UNCHANGED <<participants, messages, now, conns, groups, _previous_message_state, others>>
ReplyErrorSilent(k, text_data, text) ==
    /\ outbox' = NoFrames
    /\ last' = Op("receive", k, text_data, "error", 0, "ok", "none")
    /\ errors_logged' = <<>>
    /\ UNCHANGED <<participants, messages, now, conns, groups, _previous_message_state, others>>
ReplyError(k, text_data, text) ==
    /\ outbox' = [NoFrames EXCEPT ![k] = <<ErrorFrame(text)>>]
    /\ last' = Op("receive", k, text_data, "error", 0, "ok", "none")
    /\ errors_logged' = <<>>
    /\ UNCHANGED <<participants, messages, now, conns, groups, _previous_message_state, others>>

\* the sender check of _edit_message and _delete_message: msg.sender != scope user
IsSenderAnyone(msg, user) == TRUE
IsSender(msg, user) == msg.sender = user

\* action == 'send_message' with _create_message
SendMessage(k, text_data, layers) ==
    LET data == text_data.data
        user == conns[k].user
        c == conns[k].conversation
        content == Strip(DictGet(data, "content", <<>>))
    IN IF content = <<>> THEN ReplyError(k, text_data, "Content cannot be empty")
       ELSE IF ~CanPost(c, user)
       THEN ReplyError(k, text_data, "You are not allowed to post in this conversation.")
       ELSE \E layer \in layers :
               LET instance == NewMessage(c, user, content)
               IN /\ SaveCreated(instance, layer, k)
                  /\ last' = Op("receive", k, text_data, "ok", Len(messages) + 1, layer,
                                Published(Len(messages) + 1, instance, TRUE,
                                          _previous_message_state, layer))
                  /\ UNCHANGED <<participants, now, conns, groups, others>>

\* action == 'edit_message' with _edit_message and Message.edit
EditMessage(k, text_data, layers) ==
    LET data == text_data.data
        user == conns[k].user
        c == conns[k].conversation
        message_id == DictGet(data, "message_id", 0)
        content == Strip(DictGet(data, "content", <<>>))
    IN IF message_id = 0 THEN ReplyError(k, text_data, "message_id is required")
       ELSE IF content = <<>> THEN ReplyError(k, text_data, "Content cannot be empty")
       ELSE IF ~MessageInConversation(message_id, c)
       THEN ReplyError(k, text_data, "Message not found")
       ELSE IF ~IsSender(messages[message_id], user)
       THEN ReplyError(k, text_data, "You can only edit your own messages.")
       ELSE IF messages[message_id].is_deleted
       THEN ReplyError(k, text_data, "Cannot edit a deleted message.")
       ELSE \E layer \in layers :
               LET instance == Edited(messages[message_id], content)
               IN /\ SaveExisting(message_id, instance, {"content", "edited_at"}, layer, k)
                  /\ last' = Op("receive", k, text_data, "ok", message_id, layer,
                                Published(message_id, instance, FALSE,
                                          store_message_state(message_id), layer))
                  /\ UNCHANGED <<participants, now, conns, groups, others>>

\* action == 'delete_message' with _delete_message and Message.soft_delete
DeleteMessage(k, text_data, layers) ==
    LET data == text_data.data
        user == conns[k].user
        c == conns[k].conversation
        message_id == DictGet(data, "message_id", 0)
    IN IF message_id = 0 THEN ReplyError(k, text_data, "message_id is required")
       ELSE IF ~MessageInConversation(message_id, c)
       THEN ReplyError(k, text_data, "Message not found")
       ELSE IF ~IsSender(messages[message_id], user)
       THEN ReplyError(k, text_data, "You can only delete your own messages.")
       ELSE \E layer \in layers :
               LET instance == SoftDeleted(messages[message_id])
               IN /\ SaveExisting(message_id, instance, {"is_deleted"}, layer, k)
                  /\ last' = Op("receive", k, text_data, "ok", message_id, layer,
                                Published(message_id, instance, FALSE,
                                          store_message_state(message_id), layer))
                  /\ UNCHANGED <<participants, now, conns, groups, others>>

\* ConversationConsumer.receive for one inbound text frame on an Open connection
Receive(k, text_data, layers) ==
    /\ last = Idle
    /\ conns[k].status = "Open"
    /\ IF text_data.kind = "empty"
       THEN /\ outbox' = NoFrames /\ errors_logged' = <<>>
            /\ last' = Op("receive", k, text_data, "ignored", 0, "ok", "none")
            /\ UNCHANGED <<participants, messages, now, conns, groups, _previous_message_state, others>>
       ELSE IF text_data.kind = "malformed"
       THEN ReplyError(k, text_data, "Invalid JSON")
       ELSE LET action == DictGet(text_data.data, "action", None)
            IN IF action = "send_message" THEN SendMessage(k, text_data, layers)
               ELSE IF action = "edit_message" THEN EditMessage(k, text_data, layers)
               ELSE IF action = "delete_message" THEN DeleteMessage(k, text_data, layers)
               ELSE ReplyError(k, text_data, "Unknown action")

\* ------------------------------------------------------- inbound frames
Contents == {<<>>, <<" ">>, <<"a">>, <<" ", "b", " ">>}
EditContents == {<<"a">>, <<"b">>}
MessageIds == 1..(MaxMessages + 1)
Objects ==
    {[action |-> "send_message", content |-> x] : x \in Contents \ {<<>>}}
    \cup {[action |-> "send_message"]}
    \cup {[action |-> "edit_message", message_id |-> i, content |-> x] :
            i \in MessageIds, x \in EditContents}
    \cup {[action |-> "edit_message", content |-> <<"a">>],
          [action |-> "edit_message", message_id |-> 1, content |-> <<" ">>]}
    \cup {[action |-> "delete_message", message_id |-> i] : i \in MessageIds}
    \cup {[action |-> "delete_message"]}
    \cup {[action |-> "bogus"], [content |-> <<"a">>]}
Frames ==
    {[kind |-> "empty", data |-> EmptyDict], [kind |-> "malformed", data |-> EmptyDict]}
    \cup {[kind |-> "object", data |-> d] : d \in Objects}

\* ------------------------------------------- frames of any JSON value
\* json.loads accepts every JSON value. A JSON string is written here as the
\* sequence of its characters; a value of `content` that is no string is
\* written as a one-element sequence naming its JSON type
NotAString == {<<"#number">>, <<"#null">>, <<"#list">>}
\* decoded values that are no dict
NotAnObject == {"list", "number", "string", "null"}

\* the attribute lookups of receive that no try block covers: data.get on a
\* decoded value that is no dict (line 40), and .strip() on a `content` that
\* is no str, in the send_message branch (line 43) and in the edit_message
\* branch (line 67, before message_id is looked at)
RaisesAttributeError(text_data) ==
    \/ text_data.kind \in NotAnObject
    \/ /\ text_data.kind = "object"
       /\ DictGet(text_data.data, "action", None) \in {"send_message", "edit_message"}
       /\ DictGet(text_data.data, "content", <<>>) \in NotAString

\* the exception leaves receive and ends the consumer: nothing is sent and
\* nothing is stored, the server closes the socket with 1011, and
\* ConversationConsumer.disconnect, which the server may or may not still
\* dispatch to the ended consumer, is what discards the channel from the group
ReceiveRaises(k, text_data) ==
    /\ last = Idle
    /\ conns[k].status = "Open"
    /\ RaisesAttributeError(text_data)
    /\ conns' = [conns EXCEPT ![k] = ClosedConn(1011)]
    /\ \E discarded \in BOOLEAN :
          groups' = IF discarded
                    THEN [groups EXCEPT ![conns[k].conversation] = @ \ {k}]
                    ELSE groups
    /\ outbox' = NoFrames /\ errors_logged' = <<>>
    /\ last' = Op("receive", k, text_data, "raised", 0, "ok", "none")
    /\ UNCHANGED <<participants, messages, now, _previous_message_state, others>>

\* ConversationConsumer.receive for a frame holding any JSON value
ReceiveAny(k, text_data, layers) ==
    IF RaisesAttributeError(text_data)
    THEN ReceiveRaises(k, text_data)
    ELSE Receive(k, text_data, layers)

AnyObjects ==
    {[action |-> "send_message", content |-> v] : v \in NotAString \cup {<<"a">>}}
    \cup {[action |-> "edit_message", message_id |-> 1, content |-> v] :
            v \in NotAString \cup {<<"b">>}}
    \cup {[action |-> "edit_message", content |-> v] : v \in NotAString}
    \cup {[action |-> "delete_message", message_id |-> 1, content |-> v] : v \in NotAString}
    \cup {[action |-> "bogus", content |-> v] : v \in NotAString}
    \cup {[action |-> "delete_message"]}
AnyFrames ==
    {[kind |-> "empty", data |-> EmptyDict], [kind |-> "malformed", data |-> EmptyDict]}
    \cup {[kind |-> x, data |-> EmptyDict] : x \in NotAnObject}
    \cup {[kind |-> "object", data |-> d] : d \in AnyObjects}

\* ---------------------------------------------------------- REST create
\* MessageViewSet.create: serializer validation (content is trimmed and may
\* not be blank), then perform_create
RestCreate(user, c, raw_content, layers) ==
    LET content == Strip(raw_content)
        req == [kind |-> "rest_create", conversation |-> c, user |-> user, content |-> raw_content]
        Refuse(code) ==
            /\ last' = Op("rest_create", 0, req, code, 0, "ok", "none")
            /\ outbox' = NoFrames /\ errors_logged' = <<>>
            /\ UNCHANGED <<participants, messages, now, conns, groups, _previous_message_state, others>>
    IN /\ last = Idle
       /\ IF content = <<>> THEN Refuse("400")
          ELSE IF c \notin Conversations THEN Refuse("404")
          ELSE IF ~CanPost(c, user) THEN Refuse("403")
          ELSE \E layer \in layers :
                  LET instance == NewMessage(c, user, content)
                  IN /\ SaveCreated(instance, layer, 0)
                     /\ last' = Op("rest_create", 0, req, "201", Len(messages) + 1, layer,
                                   Published(Len(messages) + 1, instance, TRUE,
                                             _previous_message_state, layer))
                     /\ UNCHANGED <<participants, now, conns, groups, others>>

\* ------------------------------------------------------ membership changes
\* conversations whose participants follow a team roster
TeamConversations == {1}

\* sync_team_conversation_members, post_add of one user: a row is created
\* (can_post defaults to true) unless one exists
AddParticipant(c, u) ==
    /\ last = Idle
    /\ c \in TeamConversations
    /\ ParticipantRows(c, u) = {}
    /\ participants' = participants \cup {[conversation |-> c, user |-> u, can_post |-> TRUE]}
    /\ UNCHANGED <<outbox, errors_logged, last, messages, now, conns, groups, _previous_message_state, others>>

\* sync_team_conversation_members, post_remove of one user: the rows are deleted
RemoveParticipantAndKick(c, u) ==
    LET kicked == {k \in Conns : conns[k].status = "Open" /\ conns[k].conversation = c
                                  /\ conns[k].user = u}
    IN /\ last = Idle
       /\ c \in TeamConversations
       /\ ParticipantRows(c, u) # {}
       /\ participants' = participants \ ParticipantRows(c, u)
       /\ conns' = [k \in Conns |-> IF k \in kicked THEN ClosedConn(4403) ELSE conns[k]]
       /\ groups' = [groups EXCEPT ![c] = @ \ kicked]
       /\ UNCHANGED <<outbox, errors_logged, last, messages, now, _previous_message_state, others>>
RemoveParticipant(c, u) ==
    /\ last = Idle
    /\ c \in TeamConversations
    /\ ParticipantRows(c, u) # {}
    /\ participants' = participants \ ParticipantRows(c, u)
    /\ UNCHANGED <<outbox, errors_logged, last, messages, now, conns, groups, _previous_message_state, others>>

\* ConversationParticipantAdmin: an administrator flips can_post of a row
SetCanPost(c, u) ==
    /\ last = Idle
    /\ c \in TeamConversations
    /\ ParticipantRows(c, u) # {}
    /\ participants' = (participants \ ParticipantRows(c, u))
                       \cup {[p EXCEPT !.can_post = ~p.can_post] : p \in ParticipantRows(c, u)}
    /\ UNCHANGED <<outbox, errors_logged, last, messages, now, conns, groups, _previous_message_state, others>>

\* time passes: timezone.now() grows
Tick ==
    /\ last = Idle
    /\ now < MaxClock
    /\ now' = now + 1
    /\ UNCHANGED <<outbox, errors_logged, last, participants, messages, conns, groups, _previous_message_state, others>>

\* --------------------------------------------------------- connect inputs
Queries == {<<>>, <<"">>, <<"tok_u1">>, <<"tok_u2">>, <<"tok_bad">>}
Header(name, scheme, credentials) ==
    [name |-> name, scheme |-> scheme, credentials |-> credentials]
Headers ==
    {<<>>,
     <<Header("authorization", "bearer", "tok_u1")>>,
     <<Header("authorization", "bearer", "tok_ghost")>>,
     <<Header("authorization", "basic", "tok_u1")>>,
     <<Header("host", "", ""), Header("authorization", "bearer", "tok_u2")>>}

\* the explored stores hold at most MaxMessages rows
WithinStore == Len(messages') <= MaxMessages

\* the frames written by the last handler have left the server
Flush ==
    /\ last # Idle
    /\ last' = Idle
    /\ outbox' = NoFrames /\ errors_logged' = <<>>
    /\ UNCHANGED <<participants, messages, now, conns, groups, _previous_message_state, others>>

\* request bodies of the REST create
RestContents == {<<" ">>, <<"a">>}

\* connections opened by clients holding a valid token in the query string
ClientQueries == {<<>>, <<"tok_u1">>, <<"tok_u2">>}

Membership ==
    \/ \E c \in Conversations, u \in Users : AddParticipant(c, u)
    \/ \E c \in Conversations, u \in Users : RemoveParticipant(c, u)
    \/ \E c \in Conversations, u \in Users : SetCanPost(c, u)

\* the chat with a working channel layer, within one reading of the clock
Next ==
    \/ \E k \in Conns, c \in Conversations, query \in ClientQueries : Connect(k, c, query, <<>>)
    \/ \E k \in Conns : Disconnect(k)
    \/ \E k \in Conns, text_data \in Frames : Receive(k, text_data, {"ok"}) /\ WithinStore
    \/ \E user \in Users, c \in Conversations : RestCreate(user, c, <<"a">>, {"ok"}) /\ WithinStore
    \/ Membership
    \/ Flush

Spec == Init /\ [][Next]_vars

\* the handshake with every combination of query string and headers
NextAuth ==
    \/ \E k \in Conns, c \in ConvIds, query \in Queries, headers \in Headers :
          Connect(k, c, query, headers)
    \/ \E k \in Conns : Disconnect(k)
    \/ \E user \in Users, c \in ConvIds, raw_content \in RestContents :
          RestCreate(user, c, raw_content, {"ok"}) /\ WithinStore
    \/ Membership
    \/ Flush

SpecAuth == Init /\ [][NextAuth]_vars

\* the saves with a channel layer whose group_send may raise
NextSave ==
    \/ \E c \in Conversations, u \in Users : AddParticipant(c, u)
    \/ \E c \in ConvIds, query \in ClientQueries : Connect(1, c, query, <<>>)
    \/ \E text_data \in Frames : Receive(1, text_data, LayerOutcomes) /\ WithinStore
    \/ \E user \in Users, c \in ConvIds, raw_content \in RestContents :
          RestCreate(user, c, raw_content, LayerStates) /\ WithinStore
    \/ Tick
    \/ Flush

SpecSave == Init /\ [][NextSave]_vars

\* ---------------------------------------------------------------- reads
\* rows of a store explored by the read specification
MaxListed == 2
WithinList == Len(messages') <= MaxListed

\* a queryset ordered by created_at: every sequence of the pks in S, each
\* once, whose created_at never decreases (ascending) or never increases
\* (descending); rows with equal created_at come in any order
Orderings(S, ascending) ==
    {seq \in [1..Cardinality(S) -> S] :
        /\ \A i, j \in 1..Cardinality(S) : i # j => seq[i] # seq[j]
        /\ \A i, j \in 1..Cardinality(S) : i < j =>
              IF ascending
              THEN messages[seq[i]].created_at <= messages[seq[j]].created_at
              ELSE messages[seq[i]].created_at >= messages[seq[j]].created_at}

\* MessageSerializer(msg).data
MessageSerializer(pk) ==
    [id |-> pk, conversation |-> messages[pk].conversation, sender |-> messages[pk].sender,
     content |-> messages[pk].content, created_at |-> messages[pk].created_at,
     edited_at |-> messages[pk].edited_at, is_deleted |-> messages[pk].is_deleted]

\* MessageViewSet.get_queryset: nothing for a non-participant, else the
\* non-deleted rows of the conversation
VisibleMessagesToAnyone(user, c) ==
    {pk \in DOMAIN messages : messages[pk].conversation = c /\ ~messages[pk].is_deleted}
VisibleMessages(user, c) ==
    IF ParticipantRows(c, user) = {} THEN {}
    ELSE {pk \in DOMAIN messages : messages[pk].conversation = c /\ ~messages[pk].is_deleted}

\* GET conversations/<c>/messages/ (MessageViewSet.list)
ListMessages(user, c) ==
    /\ last = Idle
    /\ \E seq \in Orderings(VisibleMessages(user, c), TRUE) :
          last' = Op("list_messages", 0,
                     [kind |-> "list_messages", user |-> user, conversation |-> c,
                      response |-> [i \in DOMAIN seq |-> MessageSerializer(seq[i])]],
                     "200", 0, "ok", "none")
    /\ outbox' = NoFrames /\ errors_logged' = <<>>
    /\ UNCHANGED <<participants, messages, now, conns, groups, _previous_message_state, others>>

\* ConversationSerializer.get_last_message: the first row of the
\* conversation's messages ordered by -created_at, as a list of at most one
LastMessageOf(c) ==
    LET rows == {pk \in DOMAIN messages : messages[pk].conversation = c}
    IN {IF seq = <<>> THEN <<>> ELSE <<MessageSerializer(seq[1])>> :
            seq \in Orderings(rows, FALSE)}

\* GET conversations/ (ConversationViewSet.list): the conversations the user
\* participates in, each with its last_message
ListConversations(user) ==
    LET mine == {c \in Conversations : ParticipantRows(c, user) # {}}
    IN /\ last = Idle
       /\ \E preview \in [mine -> UNION {LastMessageOf(c) : c \in Conversations}] :
             /\ \A c \in mine : preview[c] \in LastMessageOf(c)
             /\ last' = Op("list_conversations", 0,
                           [kind |-> "list_conversations", user |-> user,
                            last_message |-> preview],
                           "200", 0, "ok", "none")
       /\ outbox' = NoFrames /\ errors_logged' = <<>>
       /\ UNCHANGED <<participants, messages, now, conns, groups, _previous_message_state, others>>

\* creates, edits and deletes over time, and the two reads
ListFrames ==
    {[kind |-> "object", data |-> d] :
        d \in {[action |-> "edit_message", message_id |-> i, content |-> <<"b">>] :
                  i \in 1..MaxListed}
              \cup {[action |-> "delete_message", message_id |-> i] : i \in 1..MaxListed}}

NextList ==
    \/ \E c \in Conversations : AddParticipant(c, "u1")
    \/ \E c \in Conversations : Connect(1, c, <<"tok_u1">>, <<>>)
    \/ \E text_data \in ListFrames : Receive(1, text_data, {"ok"})
    \/ \E c \in Conversations : RestCreate("u1", c, <<"a">>, {"ok"}) /\ WithinList
    \/ \E user \in Users, c \in Conversations : ListMessages(user, c)
    \/ \E user \in Users : ListConversations(user)
    \/ Tick
    \/ Flush

SpecList == Init /\ [][NextList]_vars

\* ------------------------------------------- conversations and rosters
\* the team conversation of the team, the judges conversation of the
\* hackathon, and the direct-message conversation of the two users
TeamConv == 1
JudgesConv == 2
DMConvs == {3, 4}
\* Conversation.type of each
ConversationType(c) ==
    IF c = TeamConv THEN "team" ELSE IF c = JudgesConv THEN "judges" ELSE "dm"
\* Team.organizer and Organization.organizer
TeamOrganizer == "u1"
OrgOrganizer == "u2"

\* the chat and the notification tables, which no roster request touches
chat == <<messages, now, conns, groups, _previous_message_state, outbox, errors_logged, last,
          replica>>
notices == <<notifications, email_notifications, sent_mail>>

\* rows of `rows` that a candidate (conversation, user) collides with under
\* unique_together = [('conversation', 'user')]
Conflicts(rows, news) ==
    {n \in news : \E r \in rows : r.conversation = n.conversation /\ r.user = n.user}

\* INSERT of the candidates: each becomes a row (can_post defaults to true);
\* `copy` tells apart rows of the same pair, should the table ever hold two
Inserted(rows, news) ==
    rows \cup {[conversation |-> n.conversation, user |-> n.user, can_post |-> TRUE,
                copy |-> 1 + Cardinality({r \in rows : r.conversation = n.conversation
                                                       /\ r.user = n.user})] : n \in news}

\* ConversationParticipant.objects.bulk_create(news, ignore_conflicts=...):
\* the unique constraint rejects the whole statement (IntegrityError), or,
\* with ignore_conflicts, skips the colliding candidates
BulkCreateUnchecked(rows, news, ignore_conflicts) == Inserted(rows, news)
BulkCreate(rows, news, ignore_conflicts) ==
    IF ignore_conflicts THEN Inserted(rows, news \ Conflicts(rows, news))
    ELSE IF Conflicts(rows, news) # {} THEN rows
    ELSE Inserted(rows, news)

Candidates(c, users) == {[conversation |-> c, user |-> u] : u \in users}

\* the list comprehension of the post_add branch: the uids of pk_set that
\* have no row when exists() is evaluated
WithoutRow(c, pk_set) == {u \in pk_set : ParticipantRows(c, u) = {}}

\* team.members.add(u) / hackathon.judges.add(u) up to the call of
\* bulk_create: the m2m row, get_or_create of the conversation, the filter
RosterAddStart(w, kind, u) ==
    LET c == IF kind = "team" THEN TeamConv ELSE JudgesConv
        roster == IF kind = "team" THEN team_members ELSE judges
        pk_set == {u} \ roster
    IN /\ tasks[w] = NoTask
       /\ IF kind = "team"
          THEN team_members' = team_members \cup {u} /\ judges' = judges
          ELSE judges' = judges \cup {u} /\ team_members' = team_members
       /\ conversations' = conversations \cup {c}
       /\ tasks' = [tasks EXCEPT ![w] =
                       [pc |-> "bulk_create", kind |-> kind, conversation |-> c,
                        pk_set |-> pk_set, todo |-> WithoutRow(c, pk_set)]]
       /\ UNCHANGED <<participants, chat, notices>>

\* bulk_create of the post_add branch (no ignore_conflicts): on
\* IntegrityError the add is rolled back with its m2m row
RosterAddInsert(w) ==
    LET t == tasks[w]
        news == Candidates(t.conversation, t.todo)
    IN /\ t.pc = "bulk_create"
       /\ participants' = BulkCreate(participants, news, FALSE)
       /\ IF Conflicts(participants, news) # {}
          THEN /\ tasks' = [tasks EXCEPT ![w] = NoTask]
               /\ IF t.kind = "team"
                  THEN team_members' = team_members \ t.pk_set /\ judges' = judges
                  ELSE judges' = judges \ t.pk_set /\ team_members' = team_members
          ELSE /\ tasks' = [tasks EXCEPT ![w] =
                               IF t.kind = "team" THEN NoTask
                               ELSE [pc |-> "ensure", kind |-> t.kind,
                                     conversation |-> t.conversation]]
               /\ UNCHANGED <<team_members, judges>>
       /\ UNCHANGED <<conversations, chat, notices>>

\* sync_judges_conversation_members, the closing loop: get_or_create of a
\* row for the organization's organizer
RosterEnsure(w) ==
    /\ tasks[w].pc = "ensure"
    /\ participants' = BulkCreate(participants,
                                  Candidates(tasks[w].conversation, {OrgOrganizer}), TRUE)
    /\ tasks' = [tasks EXCEPT ![w] = NoTask]
    /\ UNCHANGED <<conversations, team_members, judges, chat, notices>>

\* team.members.remove(u) / hackathon.judges.remove(u): the post_remove
\* branch deletes the rows of pk_set
RosterRemove(w, kind, u) ==
    LET c == IF kind = "team" THEN TeamConv ELSE JudgesConv
        roster == IF kind = "team" THEN team_members ELSE judges
    IN /\ tasks[w] = NoTask
       /\ u \in roster
       /\ IF kind = "team"
          THEN team_members' = team_members \ {u} /\ judges' = judges
          ELSE judges' = judges \ {u} /\ team_members' = team_members
       /\ conversations' = conversations \cup {c}
       /\ participants' = participants \ ParticipantRows(c, u)
       /\ tasks' = [tasks EXCEPT ![w] =
                       IF kind = "team" THEN NoTask
                       ELSE [pc |-> "ensure", kind |-> kind, conversation |-> c]]
       /\ UNCHANGED <<chat, notices>>

\* team.members.clear() / hackathon.judges.clear(): the post_clear branch
\* deletes every row of the conversation
RosterClear(w, kind) ==
    LET c == IF kind = "team" THEN TeamConv ELSE JudgesConv
    IN /\ tasks[w] = NoTask
       /\ IF kind = "team"
          THEN team_members' = {} /\ judges' = judges
          ELSE judges' = {} /\ team_members' = team_members
       /\ conversations' = conversations \cup {c}
       /\ participants' = {p \in participants : p.conversation # c}
       /\ tasks' = [tasks EXCEPT ![w] =
                       IF kind = "team" THEN NoTask
                       ELSE [pc |-> "ensure", kind |-> kind, conversation |-> c]]
       /\ UNCHANGED <<chat, notices>>

\* create_team_conversation / create_judges_conversation up to bulk_create:
\* the authorization check and get_or_create of the conversation; the
\* members to add are those read with the team or hackathon
CreateRosterConversation(w, kind, user) ==
    LET c == IF kind = "team" THEN TeamConv ELSE JudgesConv
        authorized == IF kind = "team"
                      THEN user \in team_members \/ user = TeamOrganizer
                      ELSE user \in judges \/ user = OrgOrganizer
        members == IF kind = "team" THEN team_members ELSE judges \cup {OrgOrganizer}
    IN /\ tasks[w] = NoTask
       /\ authorized
       /\ conversations' = conversations \cup {c}
       /\ tasks' = [tasks EXCEPT ![w] =
                       IF c \in conversations THEN NoTask
                       ELSE [pc |-> "create_rows", kind |-> kind, conversation |-> c,
                             members |-> members]]
       /\ UNCHANGED <<participants, team_members, judges, chat, notices>>

\* ... its bulk_create(ignore_conflicts=True) of the members
CreateRosterRows(w) ==
    LET t == tasks[w]
    IN /\ t.pc = "create_rows"
       /\ participants' = BulkCreate(participants, Candidates(t.conversation, t.members), TRUE)
       /\ tasks' = [tasks EXCEPT ![w] =
                       IF t.kind = "team" /\ TeamOrganizer \notin team_members
                       THEN [pc |-> "create_organizer", kind |-> t.kind,
                             conversation |-> t.conversation]
                       ELSE NoTask]
       /\ UNCHANGED <<conversations, team_members, judges, chat, notices>>

\* ... and, for a team whose organizer is not a member, get_or_create of the
\* organizer's row
CreateOrganizerRow(w) ==
    /\ tasks[w].pc = "create_organizer"
    /\ participants' = BulkCreate(participants,
                                  Candidates(tasks[w].conversation, {TeamOrganizer}), TRUE)
    /\ tasks' = [tasks EXCEPT ![w] = NoTask]
    /\ UNCHANGED <<conversations, team_members, judges, chat, notices>>

\* the `existing` queryset of create_dm: the dm conversations whose join with
\* the participant rows of the two users counts 2 rows
ExistingDM(user, target) ==
    {c \in conversations :
        /\ ConversationType(c) = "dm"
        /\ Cardinality({p \in participants :
                           p.conversation = c /\ p.user \in {user, target}}) = 2}

\* the lowest element of a non-empty set of ids (first() orders by pk)
Lowest(S) == CHOOSE c \in S : \A d \in S : c <= d

\* create_dm up to its transaction: validation, the self check and the
\* `existing` query; an existing conversation is returned with 200
CreateDMQuery(w, user, target) ==
    /\ tasks[w] = NoTask
    /\ target # user
    /\ tasks' = [tasks EXCEPT ![w] =
                    IF ExistingDM(user, target) # {} THEN NoTask
                    ELSE [pc |-> "create_dm", user |-> user, target |-> target]]
    /\ UNCHANGED <<participants, conversations, team_members, judges, chat, notices>>

\* ... and its transaction: the conversation and its two rows
CreateDMInsert(w) ==
    LET t == tasks[w]
        free == DMConvs \ conversations
    IN /\ t.pc = "create_dm"
       /\ free # {}
       /\ conversations' = conversations \cup {Lowest(free)}
       /\ participants' = BulkCreate(participants,
                                     Candidates(Lowest(free), {t.user, t.target}), FALSE)
       /\ tasks' = [tasks EXCEPT ![w] = NoTask]
       /\ UNCHANGED <<team_members, judges, chat, notices>>

\* POST conversations/ (ModelViewSet.create with perform_create): a
\* Conversation row of the requested type; `participants` is read-only in
\* ConversationSerializer, so no participant row is written
ConversationIds == {TeamConv, JudgesConv} \cup DMConvs
CreateConversation(user, type) ==
    LET free == {c \in ConversationIds \ conversations : ConversationType(c) = type}
    IN /\ \A w \in Workers : tasks[w] = NoTask
       /\ free # {}
       /\ conversations' = conversations \cup {Lowest(free)}
       /\ UNCHANGED <<participants, tasks, team_members, judges, chat, notices>>

RosterKinds == {"team", "judges"}

\* no conversation yet; the team and the hackathon may already have members
InitRoster ==
    /\ participants = {}
    /\ messages = <<>>
    /\ now = 1
    /\ conns = [k \in Conns |-> ConnectingConn]
    /\ groups = [c \in ConvIds |-> {}]
    /\ _previous_message_state = EmptySnapshots
    /\ outbox = NoFrames
    /\ errors_logged = <<>>
    /\ last = Idle
    /\ conversations = {}
    /\ team_members \in SUBSET Users
    /\ judges \in SUBSET Users
    /\ replica = EmptyReplica
    /\ tasks = [w \in Workers |-> NoTask]
    /\ notifications = {}
    /\ email_notifications = {}
    /\ sent_mail = <<>>

NextRoster ==
    \/ \E w \in Workers, kind \in RosterKinds, u \in Users : RosterAddStart(w, kind, u)
    \/ \E w \in Workers : RosterAddInsert(w)
    \/ \E w \in Workers : RosterEnsure(w)
    \/ \E w \in Workers, kind \in RosterKinds, u \in Users : RosterRemove(w, kind, u)
    \/ \E w \in Workers, kind \in RosterKinds, user \in Users :
          CreateRosterConversation(w, kind, user)
    \/ \E w \in Workers : CreateRosterRows(w)
    \/ \E w \in Workers : CreateOrganizerRow(w)
    \/ \E w \in Workers, user \in Users, target \in Users : CreateDMQuery(w, user, target)
    \/ \E w \in Workers : CreateDMInsert(w)

SpecRoster == InitRoster /\ [][NextRoster]_vars

\* ------------------------------------------------------ direct messages
\* DELETE conversations/<c>/ (ModelViewSet.destroy): the conversation is
\* looked up among those the user participates in; its participant rows go
\* with it (on_delete=CASCADE)
DestroyConversation(user, c) ==
    /\ \A w \in Workers : tasks[w] = NoTask
    /\ c \in conversations
    /\ ParticipantRows(c, user) # {}
    /\ \A m \in DOMAIN messages : messages[m].conversation # c
    /\ conversations' = conversations \ {c}
    /\ participants' = {p \in participants : p.conversation # c}
    /\ UNCHANGED <<tasks, team_members, judges, chat, notices>>

\* no conversation, no team member, no judge
InitDM ==
    /\ participants = {}
    /\ messages = <<>>
    /\ now = 1
    /\ conns = [k \in Conns |-> ConnectingConn]
    /\ groups = [c \in ConvIds |-> {}]
    /\ _previous_message_state = EmptySnapshots
    /\ outbox = NoFrames
    /\ errors_logged = <<>>
    /\ last = Idle
    /\ conversations = {}
    /\ OthersAtRest

ConversationTypes == {"dm", "team", "judges"}

\* create_dm requests of the two users, and the generic create endpoint
NextDM ==
    \/ \E w \in Workers, user \in Users, target \in Users : CreateDMQuery(w, user, target)
    \/ \E w \in Workers : CreateDMInsert(w)
    \/ \E user \in Users, type \in ConversationTypes : CreateConversation(user, type)

SpecDM == InitDM /\ [][NextDM]_vars

\* ------------------------------------------------ roster events in turn
\* a new team and a new hackathon; one request at a time changes a roster,
\* creates a roster conversation or deletes one
NextSync ==
    \/ \E kind \in RosterKinds, u \in Users : RosterAddStart(1, kind, u)
    \/ RosterAddInsert(1)
    \/ RosterEnsure(1)
    \/ \E kind \in RosterKinds, u \in Users : RosterRemove(1, kind, u)
    \/ \E kind \in RosterKinds : RosterClear(1, kind)
    \/ \E kind \in RosterKinds, user \in Users : CreateRosterConversation(1, kind, user)
    \/ CreateRosterRows(1)
    \/ CreateOrganizerRow(1)
    \/ \E user \in Users, c \in {TeamConv, JudgesConv} : DestroyConversation(user, c)

SpecSync == InitDM /\ [][NextSync]_vars

\* ------------------------------------------------------------ leave_team
\* messages handed to send_mail in an explored behaviour
MaxMail == 2

\* TeamViewSet.leave_team with LeaveTeamSerializer: validate (a member, not
\* the organizer), save (members.remove, whose post_remove signal deletes the
\* conversation rows), then one send_mail to the remaining members
LeaveTeam(user) ==
    LET req == [kind |-> "leave_team", user |-> user]
        remaining_members == team_members \ {user}
    IN /\ last = Idle
       /\ \A w \in Workers : tasks[w] = NoTask
       /\ IF user \notin team_members \/ user = TeamOrganizer
          THEN /\ last' = Op("leave_team", 0, req, "400", 0, "ok", "none")
               /\ UNCHANGED <<participants, conversations, team_members, sent_mail>>
          ELSE /\ last' = Op("leave_team", 0, req, "200", 0, "ok", "none")
               /\ team_members' = remaining_members
               /\ conversations' = conversations \cup {TeamConv}
               /\ participants' = participants \ ParticipantRows(TeamConv, user)
               /\ sent_mail' = IF remaining_members # {}
                               THEN Append(sent_mail, [subject |-> "Member Left Team",
                                                       recipient_list |-> remaining_members])
                               ELSE sent_mail
       /\ outbox' = NoFrames /\ errors_logged' = <<>>
       /\ UNCHANGED <<messages, now, conns, groups, _previous_message_state, judges, tasks,
                      notifications, email_notifications, replica>>

\* a team with any members, its conversation not yet created
InitTeam ==
    /\ participants = {}
    /\ messages = <<>>
    /\ now = 1
    /\ conns = [k \in Conns |-> ConnectingConn]
    /\ groups = [c \in ConvIds |-> {}]
    /\ _previous_message_state = EmptySnapshots
    /\ outbox = NoFrames
    /\ errors_logged = <<>>
    /\ last = Idle
    /\ conversations = {}
    /\ team_members \in SUBSET Users
    /\ judges = {}
    /\ replica = EmptyReplica
    /\ tasks = [w \in Workers |-> NoTask]
    /\ notifications = {}
    /\ email_notifications = {}
    /\ sent_mail = <<>>

\* members join, the team conversation is created, members leave
NextTeam ==
    \/ \E w \in Workers, u \in Users : RosterAddStart(w, "team", u)
    \/ \E w \in Workers : RosterAddInsert(w)
    \/ \E w \in Workers, user \in Users : CreateRosterConversation(w, "team", user)
    \/ \E w \in Workers : CreateRosterRows(w)
    \/ \E w \in Workers : CreateOrganizerRow(w)
    \/ \E user \in Users : LeaveTeam(user) /\ Len(sent_mail') <= MaxMail
    \/ Flush

SpecTeam == InitTeam /\ [][NextTeam]_vars

\* ------------------------------------- edit and delete, statement by statement
\* the tables and rosters that a message save leaves alone
roster == <<conversations, team_members, judges>>

\* _edit_message up to msg.edit's save: Message.objects.get, the sender and
\* deleted checks on the loaded row, then the assignments of Message.edit on
\* the in-memory instance
EditLoad(k, text_data) ==
    LET data == text_data.data
        user == conns[k].user
        c == conns[k].conversation
        message_id == DictGet(data, "message_id", 0)
        content == Strip(DictGet(data, "content", <<>>))
    IN /\ last = Idle
       /\ conns[k].status = "Open"
       /\ tasks[k] = NoTask
       /\ IF message_id = 0 THEN ReplyError(k, text_data, "message_id is required")
          ELSE IF content = <<>> THEN ReplyError(k, text_data, "Content cannot be empty")
          ELSE IF ~MessageInConversation(message_id, c)
          THEN ReplyError(k, text_data, "Message not found")
          ELSE IF ~IsSender(messages[message_id], user)
          THEN ReplyError(k, text_data, "You can only edit your own messages.")
          ELSE IF messages[message_id].is_deleted
          THEN ReplyError(k, text_data, "Cannot edit a deleted message.")
          ELSE /\ tasks' = [tasks EXCEPT ![k] =
                               [pc |-> "pre_save", pk |-> message_id, text_data |-> text_data,
                                instance |-> Edited(messages[message_id], content),
                                fields |-> {"content", "edited_at"}, created |-> FALSE]]
               /\ UNCHANGED <<participants, chat, roster, notices>>

\* _delete_message up to soft_delete's save: Message.objects.get, the sender
\* check, then the assignment of Message.soft_delete on the in-memory instance
DeleteLoad(k, text_data) ==
    LET data == text_data.data
        user == conns[k].user
        c == conns[k].conversation
        message_id == DictGet(data, "message_id", 0)
    IN /\ last = Idle
       /\ conns[k].status = "Open"
       /\ tasks[k] = NoTask
       /\ IF message_id = 0 THEN ReplyError(k, text_data, "message_id is required")
          ELSE IF ~MessageInConversation(message_id, c)
          THEN ReplyError(k, text_data, "Message not found")
          ELSE IF ~IsSender(messages[message_id], user)
          THEN ReplyError(k, text_data, "You can only delete your own messages.")
          ELSE /\ tasks' = [tasks EXCEPT ![k] =
                               [pc |-> "pre_save", pk |-> message_id, text_data |-> text_data,
                                instance |-> SoftDeleted(messages[message_id]),
                                fields |-> {"is_deleted"}, created |-> FALSE]]
               /\ UNCHANGED <<participants, chat, roster, notices>>

\* pre_save of the save in flight on connection k: store_message_state reads
\* the persisted row and writes the shared dictionary under the pk
PreSave(k) ==
    /\ tasks[k].pc = "pre_save"
    /\ _previous_message_state' = store_message_state(tasks[k].pk)
    /\ tasks' = [tasks EXCEPT ![k].pc = "update"]
    /\ UNCHANGED <<participants, messages, now, conns, groups, outbox, errors_logged, last,
                   roster, notices, replica>>

\* the UPDATE of save(update_fields=fields): the named columns take the
\* instance's values; `was` keeps the row this statement replaced
Update(k) ==
    LET t == tasks[k]
    IN /\ t.pc = "update"
       /\ messages' = [messages EXCEPT ![t.pk] =
                          [f \in DOMAIN messages[t.pk] |->
                              IF f \in t.fields THEN t.instance[f] ELSE messages[t.pk][f]]]
       /\ tasks' = [tasks EXCEPT ![k] =
                       [pc |-> "post_save", pk |-> t.pk, text_data |-> t.text_data,
                        instance |-> t.instance, fields |-> t.fields, created |-> FALSE,
                        was |-> messages[t.pk]]]
       /\ UNCHANGED <<participants, now, conns, groups, _previous_message_state, outbox,
                      errors_logged, last, roster, notices, replica>>

\* post_save of the save in flight on connection k: broadcast_message_changes
\* reads the shared dictionary, publishes, cleans up; the handler returns
PostSave(k) ==
    LET t == tasks[k]
        snapshots == _previous_message_state
    IN /\ last = Idle
       /\ t.pc = "post_save"
       /\ outbox' = BroadcastFrames(t.pk, t.instance, t.created, snapshots, "ok", k)
       /\ _previous_message_state' = BroadcastCleanup(t.pk, t.instance, t.created, snapshots, "ok")
       /\ errors_logged' = BroadcastLog(t.pk, t.instance, t.created, snapshots, "ok")
       /\ last' = Op("receive", k, t.text_data, "ok", t.pk, "ok",
                     Published(t.pk, t.instance, t.created, snapshots, "ok"))
       /\ tasks' = [tasks EXCEPT ![k] = NoTask]
       /\ UNCHANGED <<participants, messages, now, conns, groups, roster, notices, replica>>

\* the frames of the two commands
EditFrames ==
    {[kind |-> "object",
      data |-> [action |-> "edit_message", message_id |-> i, content |-> x]] :
        i \in 1..MaxMessages, x \in EditContents}
DeleteFrames ==
    {[kind |-> "object", data |-> [action |-> "delete_message", message_id |-> i]] :
        i \in 1..MaxMessages}

\* the original sender's two connections edit and delete concurrently
NextRace ==
    \/ \E k \in Conns : Connect(k, 2, <<"tok_u1">>, <<>>)
    \/ \E user \in Users : RestCreate(user, 2, <<"a">>, {"ok"}) /\ WithinStore
    \/ \E k \in Conns, text_data \in EditFrames : EditLoad(k, text_data)
    \/ \E k \in Conns, text_data \in DeleteFrames : DeleteLoad(k, text_data)
    \/ \E k \in Conns : PreSave(k)
    \/ \E k \in Conns : Update(k)
    \/ \E k \in Conns : PostSave(k)
    \/ Tick
    \/ Flush

SpecRace == Init /\ [][NextRace]_vars

\* ---------------------------------- creation, statement by statement
\* _create_message up to the post_save of Message.objects.create: the
\* can-post check and the INSERT (pre_save finds no pk and stores nothing);
\* the row is in the table before its `message` event is published
SendInsert(k, text_data) ==
    LET user == conns[k].user
        c == conns[k].conversation
        content == Strip(DictGet(text_data.data, "content", <<>>))
        instance == NewMessage(c, user, content)
    IN /\ last = Idle
       /\ conns[k].status = "Open"
       /\ tasks[k] = NoTask
       /\ IF content = <<>> THEN ReplyError(k, text_data, "Content cannot be empty")
          ELSE IF ~CanPost(c, user)
          THEN ReplyError(k, text_data, "You are not allowed to post in this conversation.")
          ELSE /\ messages' = Append(messages, instance)
               /\ tasks' = [tasks EXCEPT ![k] =
                               [pc |-> "post_save", pk |-> Len(messages) + 1,
                                text_data |-> text_data, instance |-> instance,
                                fields |-> DOMAIN instance, created |-> TRUE]]
               /\ UNCHANGED <<participants, now, conns, groups, _previous_message_state, outbox,
                              errors_logged, last, roster, notices, replica>>

\* the client that keeps the copy, on connection Observer
Observer == 1

\* the client applies one frame: `message` and `message_updated` carry the
\* row (chat_message, chat_message_updated), `message_deleted` only its id
ApplyFrame(r, frame) ==
    LET id == frame.data.id
    IN IF frame.event \in {"message", "message_updated"}
       THEN [x \in DOMAIN r \cup {id} |->
               IF x = id
               THEN [content |-> frame.data.content, edited_at |-> frame.data.edited_at,
                     is_deleted |-> frame.data.is_deleted]
               ELSE r[x]]
       ELSE IF frame.event = "message_deleted"
       THEN [x \in DOMAIN r \cup {id} |->
               IF x # id THEN r[x]
               ELSE IF id \in DOMAIN r THEN [r[id] EXCEPT !.is_deleted = TRUE]
               ELSE [content |-> <<>>, edited_at |-> Null, is_deleted |-> TRUE]]
       ELSE r

RECURSIVE ApplyFrames(_, _)
ApplyFrames(r, frames) ==
    IF frames = <<>> THEN r ELSE ApplyFrames(ApplyFrame(r, Head(frames)), Tail(frames))

\* the frames written by the last handler have left the server, and the
\* observing client has applied those it got
ReplicaFlush ==
    /\ last # Idle
    /\ last' = Idle
    /\ outbox' = NoFrames /\ errors_logged' = <<>>
    /\ replica' = ApplyFrames(replica, outbox[Observer])
    /\ UNCHANGED <<participants, messages, now, conns, groups, _previous_message_state,
                   roster, tasks, notices>>

SendFrames == {[kind |-> "object", data |-> [action |-> "send_message", content |-> <<"a">>]]}

\* the sender's two connections create, edit and delete; the observing
\* client is registered before the first message is sent
NextOrder ==
    \/ \E k \in Conns : Connect(k, 2, <<"tok_u1">>, <<>>)
    \/ \E k \in Conns, text_data \in SendFrames :
          SendInsert(k, text_data) /\ WithinStore /\ Observer \in groups[2]
    \/ \E k \in Conns, text_data \in EditFrames : EditLoad(k, text_data)
    \/ \E k \in Conns, text_data \in DeleteFrames : DeleteLoad(k, text_data)
    \/ \E k \in Conns : PreSave(k)
    \/ \E k \in Conns : Update(k)
    \/ \E k \in Conns : PostSave(k)
    \/ Tick
    \/ ReplicaFlush

SpecOrder == Init /\ [][NextOrder]_vars

\* the chat receiving frames of every JSON value
NextFrames ==
    \/ \E k \in Conns, query \in ClientQueries : Connect(k, 2, query, <<>>)
    \/ \E k \in Conns, text_data \in AnyFrames : ReceiveAny(k, text_data, {"ok"}) /\ WithinStore
    \/ \E k \in Conns : Disconnect(k)
    \/ Flush

SpecFrames == Init /\ [][NextFrames]_vars

\* ======================================================================
\* Properties
\* ======================================================================

\* the inbound frame handled by the step recorded in `op` is the command `name`
IsCommand(op, name) ==
    /\ op.op = "receive"
    /\ op.req.kind = "object"
    /\ "action" \in DOMAIN op.req.data
    /\ op.req.data["action"] = name

\* the content / message_id carried by the frame (blank / 0 when absent)
TrimmedContent(op) ==
    LET raw == IF "content" \in DOMAIN op.req.data THEN op.req.data["content"] ELSE <<>>
    IN SelectSeq(raw, LAMBDA ch : ch # " ")
FrameMessageId(op) ==
    IF "message_id" \in DOMAIN op.req.data THEN op.req.data["message_id"] ELSE 0

\* a ConversationParticipant(c, u) row with can_post = true exists
HasPostingRow(c, u) ==
    \E p \in participants : p.conversation = c /\ p.user = u /\ p.can_post
HasRow(c, u) ==
    \E p \in participants : p.conversation = c /\ p.user = u

IsErrorReply(frames) == Len(frames) = 1 /\ frames[1].event = "error"

\* C1: a send_message with non-empty trimmed content, issued by U on a
\* connection for C, appends exactly one Message row (conversation C, sender
\* U, the trimmed content) iff a ConversationParticipant(C, U) row with
\* can_post = true exists when the command is handled; otherwise the issuer
\* gets the permission error and the Message rows are unchanged.
C1_SendIffCanPost ==
    [][ (IsCommand(last', "send_message") /\ TrimmedContent(last') # <<>>) =>
          LET k == last'.conn
              U == conns[k].user
              C == conns[k].conversation
          IN IF HasPostingRow(C, U)
             THEN /\ Len(messages') = Len(messages) + 1
                  /\ SubSeq(messages', 1, Len(messages)) = messages
                  /\ messages'[Len(messages')].conversation = C
                  /\ messages'[Len(messages')].sender = U
                  /\ messages'[Len(messages')].content = TrimmedContent(last')
                  /\ ~messages'[Len(messages')].is_deleted
                  /\ last'.outcome = "ok"
             ELSE /\ messages' = messages
                  /\ outbox'[k] = <<ErrorFrame("You are not allowed to post in this conversation.")>>
                  /\ last'.outcome = "error" ]_vars

\* C1 witness: a send_message has just created a row
C1_Witness ==
    /\ IsCommand(last, "send_message")
    /\ last.outcome = "ok"
    /\ last.pk = Len(messages)
    /\ messages[last.pk].sender = conns[last.conn].user

\* C2: an edit_message naming an existing message M succeeds only when the
\* caller is M's sender and M is not deleted; when the caller is another user
\* or M is deleted, the caller gets an error frame and M's content, edited_at
\* and is_deleted are what they were.
C2_EditOnlyBySenderOfLiveMessage ==
    [][ (IsCommand(last', "edit_message") /\ FrameMessageId(last') \in DOMAIN messages) =>
          LET k == last'.conn
              M == messages[FrameMessageId(last')]
              after == messages'[FrameMessageId(last')]
          IN /\ last'.outcome = "ok" => (conns[k].user = M.sender /\ ~M.is_deleted)
             /\ (conns[k].user # M.sender \/ M.is_deleted) =>
                   /\ IsErrorReply(outbox'[k])
                   /\ after.content = M.content
                   /\ after.edited_at = M.edited_at
                   /\ after.is_deleted = M.is_deleted ]_vars

\* C2 witness: an edit by a user who is not the sender has just been refused
C2_Witness ==
    /\ IsCommand(last, "edit_message")
    /\ FrameMessageId(last) \in DOMAIN messages
    /\ messages[FrameMessageId(last)].conversation = conns[last.conn].conversation
    /\ messages[FrameMessageId(last)].sender # conns[last.conn].user
    /\ last.outcome = "error"

\* C3: a delete_message by the original sender, on a connection for the
\* message's conversation, sets is_deleted and changes nothing else of the row
\* (the content stays), also when the message is already deleted; a delete by
\* any other user fails with the permission error and changes no row.
C3_SoftDelete ==
    [][ ( /\ IsCommand(last', "delete_message")
          /\ FrameMessageId(last') \in DOMAIN messages
          /\ messages[FrameMessageId(last')].conversation = conns[last'.conn].conversation ) =>
          LET k == last'.conn
              m == FrameMessageId(last')
          IN IF conns[k].user = messages[m].sender
             THEN /\ messages' = [messages EXCEPT ![m].is_deleted = TRUE]
                  /\ last'.outcome = "ok"
             ELSE /\ messages' = messages
                  /\ outbox'[k] = <<ErrorFrame("You can only delete your own messages.")>> ]_vars

\* C3 witness: the sender has just deleted an already deleted message again
C3_Witness ==
    /\ IsCommand(last, "delete_message")
    /\ last.outcome = "ok"
    /\ last.published = "none"
    /\ messages[last.pk].is_deleted
    /\ messages[last.pk].content # <<>>

\* the connections that are Open for conversation c
OpenFor(c) == {k \in Conns : conns[k].status = "Open" /\ conns[k].conversation = c}

\* C4: with a channel layer that delivers, each save emits by what it changed:
\* a created, non-deleted row one `message` event; a changed content of a
\* non-deleted row one `message_updated` event carrying the new content and a
\* non-null edited_at; a row turned deleted one `message_deleted` event; a save
\* that changes neither content nor is_deleted no event at all.
C4_EventDerivation ==
    [][ ( /\ last'.op \in {"receive", "rest_create"}
          /\ last'.outcome \in {"ok", "201"}
          /\ last'.layer = "ok" ) =>
          LET pk == last'.pk
              row == messages'[pk]
              Emits(type, event) ==
                  /\ last'.published = type
                  /\ \A k \in Conns :
                        IF k \in OpenFor(row.conversation)
                        THEN /\ Len(outbox'[k]) = 1
                             /\ outbox'[k][1].event = event
                             /\ outbox'[k][1].data.id = pk
                        ELSE outbox'[k] = <<>>
          IN IF pk \notin DOMAIN messages
             THEN /\ Emits("chat.message", "message")
                  /\ \A k \in OpenFor(row.conversation) : outbox'[k][1].data.content = row.content
             ELSE IF row.content # messages[pk].content
             THEN /\ Emits("chat.message_updated", "message_updated")
                  /\ \A k \in OpenFor(row.conversation) :
                        /\ outbox'[k][1].data.content = row.content
                        /\ outbox'[k][1].data.edited_at # Null
             ELSE IF row.is_deleted /\ ~messages[pk].is_deleted
             THEN Emits("chat.message_deleted", "message_deleted")
             ELSE /\ last'.published = "none"
                  /\ outbox' = NoFrames ]_vars

\* C4 witness: an edit has just changed a content, and the issuing connection
\* holds the one message_updated frame with the new content
C4_Witness ==
    /\ IsCommand(last, "edit_message")
    /\ last.outcome = "ok"
    /\ last.published = "chat.message_updated"
    /\ Len(outbox[last.conn]) = 1
    /\ outbox[last.conn][1].data.content = messages[last.pk].content
    /\ outbox[last.conn][1].data.edited_at = now
    /\ messages[last.pk].created_at < now

\* C5: when a mutation of a message of conversation C publishes an event,
\* every connection that is Open for C holds exactly one frame of that event
\* (the issuing connection and read-only participants included), and every
\* other connection holds none.
C5_BroadcastToGroup ==
    last.published # "none" =>
        \A k \in Conns :
            IF k \in OpenFor(messages[last.pk].conversation)
            THEN /\ Len(outbox[k]) = 1
                 /\ outbox[k][1].event =
                       (CASE last.published = "chat.message" -> "message"
                          [] last.published = "chat.message_updated" -> "message_updated"
                          [] last.published = "chat.message_deleted" -> "message_deleted")
                 /\ outbox[k][1].data.id = last.pk
            ELSE outbox[k] = <<>>

\* C5 witness: a command of one connection has been broadcast to itself and to
\* the connection of a read-only participant of the same conversation
C5_Witness ==
    /\ last.op = "receive"
    /\ last.published # "none"
    /\ \E k \in Conns :
          /\ k # last.conn
          /\ k \in OpenFor(conns[last.conn].conversation)
          /\ HasRow(conns[k].conversation, conns[k].user)
          /\ ~HasPostingRow(conns[k].conversation, conns[k].user)
          /\ Len(outbox[k]) = 1
          /\ Len(outbox[last.conn]) = 1

\* the user a token stands for, by the token's validity
HolderOf(token) ==
    CASE token = "tok_u1" -> "u1"
      [] token = "tok_u2" -> "u2"
      [] OTHER -> Anonymous

\* the token a handshake presents in its query string / Authorization header
PresentedInQuery(req) ==
    IF \E i \in DOMAIN req.query : req.query[i] # ""
    THEN req.query[CHOOSE i \in DOMAIN req.query :
                      req.query[i] # "" /\ \A j \in 1..(i - 1) : req.query[j] = ""]
    ELSE None
PresentedInHeader(req) ==
    IF \E i \in DOMAIN req.headers : req.headers[i].name = "authorization"
    THEN LET h == req.headers[CHOOSE i \in DOMAIN req.headers :
                                 /\ req.headers[i].name = "authorization"
                                 /\ \A j \in 1..(i - 1) : req.headers[j].name # "authorization"]
         IN IF h.scheme = "bearer" THEN h.credentials ELSE None
    ELSE None

\* C6: a handshake for conversation C by a caller without a
\* ConversationParticipant(C, caller) row, or by an anonymous caller, ends
\* Closed with code 4403; and no connection that is not Open is registered in
\* a broadcast group or holds a frame.
C6_NonParticipantRejected ==
    /\ (last.op = "connect" /\
          (last.req.user = Anonymous \/ ~HasRow(last.req.conversation, last.req.user))) =>
          /\ conns[last.conn].status = "Closed"
          /\ conns[last.conn].close_code = 4403
    /\ \A k \in Conns :
          conns[k].status # "Open" =>
             /\ \A c \in ConvIds : k \notin groups[c]
             /\ outbox[k] = <<>>

\* C6 witness: an authenticated user without a row has just been turned away
\* from a conversation that has a participant
C6_Witness ==
    /\ last.op = "connect"
    /\ last.req.user \in Users
    /\ ~HasRow(last.req.conversation, last.req.user)
    /\ \E u \in Users : HasRow(last.req.conversation, u)
    /\ conns[last.conn].close_code = 4403

\* C7: a handshake with no token, or with a token that fails validation,
\* goes on as the anonymous identity and ends Closed with code 4403; a token
\* in the query string decides the identity whatever the Authorization header
\* carries, and the header's bearer token is used only without one.
C7_AnonymousThenForbidden ==
    last.op = "connect" =>
        LET q == PresentedInQuery(last.req)
            h == PresentedInHeader(last.req)
            token == IF q # None THEN q ELSE h
        IN /\ last.req.user = (IF token = None THEN Anonymous ELSE HolderOf(token))
           /\ last.req.user = Anonymous =>
                 /\ conns[last.conn].status = "Closed"
                 /\ conns[last.conn].close_code = 4403

\* C7 witness: a bad token in the query string was not replaced by the valid
\* bearer token of the header, and the connection was closed with 4403
C7_Witness ==
    /\ last.op = "connect"
    /\ PresentedInQuery(last.req) = "tok_bad"
    /\ PresentedInHeader(last.req) = "tok_u1"
    /\ HasRow(last.req.conversation, "u1")
    /\ conns[last.conn].close_code = 4403

\* the command handled by the step to `op` fails in the state before it: the
\* caller may not post, is not the sender, the content is blank, the
\* message_id is absent, the message is not in the connection's conversation,
\* or an edit names a deleted message
CommandFails(op) ==
    LET U == conns[op.conn].user
        C == conns[op.conn].conversation
        m == FrameMessageId(op)
        NotFound == m \notin DOMAIN messages \/ messages[m].conversation # C
    IN \/ /\ IsCommand(op, "send_message")
          /\ (TrimmedContent(op) = <<>> \/ ~HasPostingRow(C, U))
       \/ /\ IsCommand(op, "edit_message")
          /\ ( \/ m = 0
               \/ TrimmedContent(op) = <<>>
               \/ NotFound
               \/ messages[m].sender # U
               \/ messages[m].is_deleted )
       \/ /\ IsCommand(op, "delete_message")
          /\ (m = 0 \/ NotFound \/ messages[m].sender # U)

\* one error frame for connection k and no frame for any other connection
ErrorToIssuerOnly(k, frames) ==
    /\ IsErrorReply(frames[k])
    /\ \A j \in Conns \ {k} : frames[j] = <<>>

\* C8: a command that fails for an authorization, validation or not-found
\* reason leaves exactly one error frame for the issuing connection and none
\* for any other, publishes nothing, and leaves the message rows, the
\* connection (still Open) and its group registration as they were, so the
\* state a later command on the connection meets is the state before the failure.
C8_FailureIsLocal ==
    [][ (last'.op = "receive" /\ CommandFails(last')) =>
          /\ ErrorToIssuerOnly(last'.conn, outbox')
          /\ last'.published = "none"
          /\ messages' = messages
          /\ participants' = participants
          /\ conns' = conns
          /\ conns'[last'.conn].status = "Open"
          /\ groups' = groups
          /\ last'.conn \in groups'[conns[last'.conn].conversation] ]_vars

\* C8 witness: an edit by a user who is not the sender has just failed while
\* another connection of the conversation was Open, and that one holds no frame
C8_Witness ==
    /\ IsCommand(last, "edit_message")
    /\ last.outcome = "error"
    /\ FrameMessageId(last) \in DOMAIN messages
    /\ messages[FrameMessageId(last)].conversation = conns[last.conn].conversation
    /\ messages[FrameMessageId(last)].sender # conns[last.conn].user
    /\ \E j \in OpenFor(conns[last.conn].conversation) : j # last.conn /\ outbox[j] = <<>>
    /\ IsErrorReply(outbox[last.conn])

\* the frame handled by the step to `op` is a JSON object whose action is
\* absent or is none of the three commands
HasNoKnownAction(op) ==
    /\ op.op = "receive"
    /\ op.req.kind = "object"
    /\ ~IsCommand(op, "send_message")
    /\ ~IsCommand(op, "edit_message")
    /\ ~IsCommand(op, "delete_message")

ErrorAndNothingElse ==
    /\ ErrorToIssuerOnly(last'.conn, outbox')
    /\ last'.published = "none"
    /\ messages' = messages

C10_RemovedParticipantRejected ==
    [][ ( /\ last'.op = "receive"
          /\ \/ IsCommand(last', "send_message")
             \/ IsCommand(last', "edit_message")
             \/ IsCommand(last', "delete_message")
          /\ ~HasRow(conns[last'.conn].conversation, conns[last'.conn].user) ) =>
          /\ IsErrorReply(outbox'[last'.conn])
          /\ messages' = messages ]_vars

\* the step to `op` handles a command or a REST create that passes every
\* check in the state before it, with a channel layer that does not deliver,
\* and its save is one that has an event to publish
PublishFails(op) ==
    /\ op.layer \in {"raise", "absent"}
    /\ \/ /\ op.op = "rest_create"
          /\ Strip(op.req.content) # <<>>
          /\ op.req.conversation \in Conversations
          /\ HasPostingRow(op.req.conversation, op.req.user)
       \/ /\ IsCommand(op, "send_message")
          /\ ~CommandFails(op)
       \/ /\ IsCommand(op, "edit_message")
          /\ ~CommandFails(op)
          /\ messages[FrameMessageId(op)].content # TrimmedContent(op)
       \/ /\ IsCommand(op, "delete_message")
          /\ ~CommandFails(op)
          /\ ~messages[FrameMessageId(op)].is_deleted

\* the mutation asked for by the step to `op` is in the store after the step
\* and the caller is told it succeeded: no error frame, no error status
MutationPersistsAndSucceeds(op) ==
    /\ op.outcome \in {"ok", "201"}
    /\ outbox' = NoFrames
    /\ op.pk \in DOMAIN messages'
    /\ \/ /\ op.op = "rest_create"
          /\ op.pk = Len(messages) + 1
          /\ messages'[op.pk].content = Strip(op.req.content)
       \/ /\ IsCommand(op, "send_message")
          /\ op.pk = Len(messages) + 1
          /\ messages'[op.pk].content = TrimmedContent(op)
       \/ /\ IsCommand(op, "edit_message")
          /\ messages'[op.pk].content = TrimmedContent(op)
          /\ messages'[op.pk].edited_at # Null
       \/ /\ IsCommand(op, "delete_message")
          /\ messages'[op.pk].is_deleted

\* C11 as amended: when the publish of a create, edit or soft delete does not
\* reach the channel layer, the mutation is persisted and the caller sees
\* success; a group_send that raises is logged, an absent layer is skipped
\* without a log record.
C11_BroadcastFailureContained ==
    [][ PublishFails(last') =>
          /\ MutationPersistsAndSucceeds(last')
          /\ (errors_logged' # <<>>) = (last'.layer = "raise") ]_vars

\* C11 witness: an edit whose group_send raised is persisted, answered without
\* an error, and logged
C11_Witness ==
    /\ IsCommand(last, "edit_message")
    /\ last.layer = "raise"
    /\ last.outcome = "ok"
    /\ messages[last.pk].content = TrimmedContent(last)
    /\ outbox = NoFrames
    /\ errors_logged = <<last.pk>>

\* C11 as stated: every such failure, the absent layer included, is logged.
C11_Original ==
    [][ PublishFails(last') =>
          /\ MutationPersistsAndSucceeds(last')
          /\ errors_logged' # <<>> ]_vars

\* the step to `op` created a message: a REST create answered 201, or a
\* send_message answered without an error
CreatedByRest(op) == op.op = "rest_create" /\ op.outcome = "201"
CreatedBySocket(op) == IsCommand(op, "send_message") /\ op.outcome = "ok"

\* the `message` frame for row pk of the store `rows`
MessageFrameOf(rows, pk) ==
    [event |-> "message",
     data |-> [id |-> pk, sender_id |-> rows[pk].sender, content |-> rows[pk].content,
               created_at |-> rows[pk].created_at, edited_at |-> rows[pk].edited_at,
               is_deleted |-> rows[pk].is_deleted]]

\* C12: a message created through the REST endpoint reaches every connection
\* registered for its conversation as exactly one `message` frame built from
\* the stored row, exactly as one created by send_message does; the issuing
\* socket gets that one frame and no second one from its handler, and no
\* connection outside the group gets any frame.
C12_BroadcastFollowsTheStore ==
    [][ (CreatedByRest(last') \/ CreatedBySocket(last')) =>
          LET pk == Len(messages) + 1
          IN /\ Len(messages') = pk
             /\ \A j \in Conns :
                  outbox'[j] = IF j \in groups[messages'[pk].conversation]
                               THEN <<MessageFrameOf(messages', pk)>>
                               ELSE <<>> ]_vars

\* C12 witness: a REST create has just delivered one `message` frame to an
\* Open connection of the conversation
C12_Witness ==
    /\ CreatedByRest(last)
    /\ \E j \in OpenFor(last.req.conversation) :
          outbox[j] = <<MessageFrameOf(messages, last.pk)>>

\* every frame delivered by the step is an error for the issuer or the event
\* of the mutation this very step made, sent to a connection that was
\* registered before the step: nothing older is ever delivered
OnlyLiveEvents ==
    \A j \in Conns : \A i \in DOMAIN outbox'[j] :
        \/ outbox'[j][i].event = "error" /\ j = last'.conn
        \/ /\ last'.published # "none"
           /\ outbox'[j][i].data.id = last'.pk
           /\ \E c \in ConvIds : j \in groups[c]

\* C13: a disconnect of an Open connection takes it out of its conversation's
\* group and changes no message or participant row; a disconnected connection
\* is in no group and is delivered nothing; a connect delivers nothing, and
\* every event frame is delivered in the step of its own mutation, so events
\* emitted while a user was disconnected reach neither the old connection nor
\* a later one of the same user.
C13_DisconnectDeregisters ==
    [][ /\ (last'.op = "disconnect" =>
              /\ conns[last'.conn].status = "Open"
              /\ groups'[conns[last'.conn].conversation] =
                    groups[conns[last'.conn].conversation] \ {last'.conn}
              /\ messages' = messages
              /\ participants' = participants)
        /\ \A k \in Conns : conns'[k].status = "Closed" =>
              /\ \A c \in ConvIds : k \notin groups'[c]
              /\ outbox'[k] = <<>>
        /\ (last'.op = "connect" => outbox' = NoFrames)
        /\ OnlyLiveEvents ]_vars

\* C13 witness: a message event is being delivered to an Open connection
\* while another connection, disconnected earlier, gets nothing
C13_Witness ==
    /\ last.published = "chat.message"
    /\ \E k \in Conns : /\ conns[k].status = "Closed"
                        /\ conns[k].close_code = 1000
                        /\ outbox[k] = <<>>
    /\ \E j \in OpenFor(messages[last.pk].conversation) : Len(outbox[j]) = 1

\* the non-deleted rows of conversation c, and the row created last in c
LiveIn(c) == {pk \in DOMAIN messages : messages[pk].conversation = c /\ ~messages[pk].is_deleted}
NewestIn(c) ==
    CHOOSE pk \in DOMAIN messages :
        /\ messages[pk].conversation = c
        /\ \A x \in DOMAIN messages : messages[x].conversation = c => x <= pk

\* the response of a participant's read lists each non-deleted row of the
\* conversation once, as stored, in an order in which created_at never decreases
ListsLiveRowsAscending(response, c) ==
    /\ Len(response) = Cardinality(LiveIn(c))
    /\ {response[i].id : i \in DOMAIN response} = LiveIn(c)
    /\ \A i \in DOMAIN response :
          /\ response[i].content = messages[response[i].id].content
          /\ ~response[i].is_deleted
    /\ \A i, j \in DOMAIN response : i < j => response[i].created_at <= response[j].created_at

\* C14, the part that holds: a participant's read of C's message list returns
\* exactly the non-deleted messages of C in ascending created_at order, and the
\* message created last in C is the last entry whenever it is not deleted and
\* its created_at is greater than that of every other listed message; a user
\* with no participant row gets an empty list.
C14_ListAfterCreate ==
    [][ last'.op = "list_messages" =>
          LET response == last'.req.response
              c == last'.req.conversation
          IN IF ~HasRow(c, last'.req.user) THEN response = <<>>
             ELSE /\ ListsLiveRowsAscending(response, c)
                  /\ \A pk \in LiveIn(c) :
                        ( /\ pk = NewestIn(c)
                          /\ \A x \in LiveIn(c) \ {pk} :
                                messages[x].created_at < messages[pk].created_at )
                        => response[Len(response)].id = pk ]_vars

\* C14, a state of that part: a participant has just read a conversation holding two
\* non-deleted messages of different created_at, and the newer one is last
C14_Witness ==
    /\ last.op = "list_messages"
    /\ HasRow(last.req.conversation, last.req.user)
    /\ Len(last.req.response) = 2
    /\ last.req.response[1].created_at < last.req.response[2].created_at
    /\ last.req.response[2].id = NewestIn(last.req.conversation)

C15_LastMessageIsLatestLive ==
    [][ last'.op = "list_conversations" =>
          \A c \in DOMAIN last'.req.last_message :
              LET preview == last'.req.last_message[c]
              IN IF LiveIn(c) = {} THEN preview = <<>>
                 ELSE /\ Len(preview) = 1
                      /\ preview[1].id \in LiveIn(c)
                      /\ \A x \in LiveIn(c) :
                            messages[x].created_at <= preview[1].created_at ]_vars

\* C16: in every reachable state, whatever the order in which the steps of
\* conversation creations (dm, team, judges) and of roster sync events
\* interleave, no two ConversationParticipant rows have the same
\* (conversation, user).
C16_UniqueParticipant ==
    \A p, q \in participants :
        (p.conversation = q.conversation /\ p.user = q.user) => p = q

\* C16 witness: a sync event found no row for a user and is about to insert
\* one, and in the meantime another request has inserted the row
C16_Witness ==
    \E w \in Workers :
        /\ tasks[w].pc = "bulk_create"
        /\ \E u \in tasks[w].todo : ParticipantRows(tasks[w].conversation, u) # {}

\* C17 as stated: when a member who is not the organizer leaves the team
\* through leave_team, the member is no longer among the team's members, the
\* organizer has a Notification and an EmailNotification whose title / subject
\* is 'Member Left Team', and the leaving member has neither.
C17_LeaveNotifiesOrganizer ==
    [][ ( /\ last = Idle
          /\ last'.op = "leave_team"
          /\ last'.req.user \in team_members
          /\ last'.req.user # TeamOrganizer ) =>
          /\ last'.outcome = "200"
          /\ last'.req.user \notin team_members'
          /\ \E n \in notifications' :
                n.user = TeamOrganizer /\ n.title = "Member Left Team"
          /\ \E n \in email_notifications' :
                n.user = TeamOrganizer /\ n.subject = "Member Left Team"
          /\ \A n \in notifications' \cup email_notifications' :
                n.user # last'.req.user ]_vars

\* C17, the part that holds: the member is removed, the remaining members are
\* the recipients of one 'Member Left Team' mail, and no Notification or
\* EmailNotification row is written for anyone.
C17_LeaveSendsMail ==
    [][ ( /\ last = Idle
          /\ last'.op = "leave_team"
          /\ last'.req.user \in team_members
          /\ last'.req.user # TeamOrganizer ) =>
          /\ last'.outcome = "200"
          /\ team_members' = team_members \ {last'.req.user}
          /\ (team_members' # {} =>
                /\ Len(sent_mail') = Len(sent_mail) + 1
                /\ sent_mail'[Len(sent_mail')].recipient_list = team_members')
          /\ notifications' = {}
          /\ email_notifications' = {} ]_vars

\* C18 as stated: under any interleaving of an edit_message and a
\* delete_message on the same message from two connections of its sender,
\* once the persisted is_deleted of a message is true its persisted content
\* and edited_at never change.
C18_DeletedRowIsFrozen ==
    [][ \A m \in DOMAIN messages :
          messages[m].is_deleted =>
              /\ messages'[m].content = messages[m].content
              /\ messages'[m].edited_at = messages[m].edited_at ]_vars

\* the save that returns in this step on connection k, and what its UPDATE
\* did to the persisted row
Returning(k) == tasks[k].pc = "post_save" /\ tasks'[k] = NoTask
MovedToDeleted(t) == "is_deleted" \in t.fields /\ ~t.was.is_deleted /\ t.instance.is_deleted
ChangedContent(t) == "content" \in t.fields /\ t.was.content # t.instance.content

\* C19 as stated: under any interleaving of concurrent saves of one message,
\* a save publishes `message_deleted` exactly when its own UPDATE moved the
\* persisted row from is_deleted = false to true, and `message_updated`
\* exactly when its own UPDATE changed the persisted content.
C19_EventFromOwnTransition ==
    [][ \A k \in Conns : Returning(k) =>
          /\ (last'.published = "chat.message_deleted") = MovedToDeleted(tasks[k])
          /\ (last'.published = "chat.message_updated") = ChangedContent(tasks[k]) ]_vars

\* the step to `op` handles an edit_message (with content) or a delete_message
\* that names a message of another conversation than the connection's
NamesForeignMessage(op) ==
    /\ last = Idle
    /\ \/ IsCommand(op, "edit_message") /\ TrimmedContent(op) # <<>>
       \/ IsCommand(op, "delete_message")
    /\ FrameMessageId(op) \in DOMAIN messages
    /\ messages[FrameMessageId(op)].conversation # conns[op.conn].conversation

\* C20: an edit_message or delete_message issued on a connection for
\* conversation C with the id of a message of another conversation C' is
\* answered with the error "Message not found" and changes no message row,
\* also when the caller is the message's sender.
C20_ForeignMessageNotFound ==
    [][ NamesForeignMessage(last') =>
          /\ outbox'[last'.conn] = <<ErrorFrame("Message not found")>>
          /\ last'.outcome = "error"
          /\ messages' = messages ]_vars

\* C20 witness: the sender of a message has just named it in an edit_message
\* on a connection for another conversation and got the error
C20_Witness ==
    /\ IsCommand(last, "edit_message")
    /\ TrimmedContent(last) # <<>>
    /\ FrameMessageId(last) \in DOMAIN messages
    /\ messages[FrameMessageId(last)].conversation # conns[last.conn].conversation
    /\ messages[FrameMessageId(last)].sender = conns[last.conn].user
    /\ ~messages[FrameMessageId(last)].is_deleted
    /\ last.outcome = "error"

\* the step to `op` is an edit_message / a delete_message that succeeds on m
EditSucceedsOn(op, m) ==
    last = Idle /\ IsCommand(op, "edit_message") /\ op.outcome = "ok" /\ op.pk = m
DeleteSucceedsOn(op, m) ==
    last = Idle /\ IsCommand(op, "delete_message") /\ op.outcome = "ok" /\ op.pk = m

\* C21: every step keeps the conversation, sender and created_at of every
\* message; a successful edit changes the content (to the trimmed content)
\* and edited_at (to the clock) and nothing else, a successful soft delete
\* sets is_deleted and nothing else, any other step leaves the row as it
\* was; a new row has a null edited_at, so edited_at is non-null only on
\* messages on which an edit has succeeded.
C21_EditAndDeleteFrame ==
    [][ /\ \A m \in DOMAIN messages :
             /\ m \in DOMAIN messages'
             /\ messages'[m].conversation = messages[m].conversation
             /\ messages'[m].sender = messages[m].sender
             /\ messages'[m].created_at = messages[m].created_at
             /\ IF EditSucceedsOn(last', m)
                THEN messages'[m] = [messages[m] EXCEPT !.content = TrimmedContent(last'),
                                                        !.edited_at = now]
                ELSE IF DeleteSucceedsOn(last', m)
                THEN messages'[m] = [messages[m] EXCEPT !.is_deleted = TRUE]
                ELSE messages'[m] = messages[m]
        /\ \A m \in DOMAIN messages' \ DOMAIN messages : messages'[m].edited_at = Null ]_vars

\* C21 witness: an edit has just succeeded on a message created earlier, and
\* only its content and edited_at differ from the created row
C21_Witness ==
    /\ IsCommand(last, "edit_message")
    /\ last.outcome = "ok"
    /\ messages[last.pk].edited_at = now
    /\ messages[last.pk].created_at < now
    /\ messages[last.pk].content = <<"b">>
    /\ ~messages[last.pk].is_deleted

\* the users with a participant row in conversation c
ParticipantUsers(c) == {p.user : p \in {q \in participants : q.conversation = c}}
RowsOf(c) == {p \in participants : p.conversation = c}

\* C22 as stated: in every reachable state every conversation of type dm has
\* exactly 2 participant rows, whether create_dm or the generic create
\* endpoint created it.
C22_DMHasTwoParticipants ==
    \A c \in conversations :
        ConversationType(c) = "dm" => Cardinality(RowsOf(c)) = 2

\* the part of C22 that holds: a conversation created by create_dm has the
\* rows of the requester and of the target, and no other
C22_CreateDMSeedsThePair ==
    [][ \A w \in Workers :
          (tasks[w].pc = "create_dm" /\ tasks'[w] = NoTask) =>
              \E c \in conversations' \ conversations :
                  /\ ConversationType(c) = "dm"
                  /\ Cardinality({p \in participants' : p.conversation = c}) = 2
                  /\ {p.user : p \in {q \in participants' : q.conversation = c}}
                        = {tasks[w].user, tasks[w].target} ]_vars

\* the dm conversations whose participants are exactly A and B
DMsOf(A, B) ==
    {c \in conversations : ConversationType(c) = "dm" /\ ParticipantUsers(c) = {A, B}}

\* C30 as stated: for every pair of distinct users there is at most one dm
\* conversation whose participants are exactly the two, after any sequence
\* and interleaving of create_dm requests from either.
C30_OneDMPerPair ==
    \A A, B \in Users : A # B => Cardinality(DMsOf(A, B)) <= 1

\* the part of C30 that holds: a create_dm that finds a dm conversation of
\* the pair returns it and creates nothing
C30_RepeatedCreateReturnsExisting ==
    [][ \A w \in Workers, A, B \in Users :
          ( /\ A # B /\ DMsOf(A, B) # {}
            /\ tasks[w] = NoTask
            /\ tasks'[w] # NoTask
            /\ tasks'[w].pc = "create_dm" ) =>
              {tasks'[w].user, tasks'[w].target} # {A, B} ]_vars

\* the step completes a roster change of the team handled by
\* sync_team_conversation_members: the bulk_create of a post_add, or a
\* post_remove / post_clear that changed the roster
TeamSyncCompletes ==
    \E w \in Workers :
        \/ tasks[w].pc = "bulk_create" /\ tasks[w].kind = "team" /\ tasks'[w] = NoTask
        \/ /\ \A x \in Workers : tasks[x] = NoTask /\ tasks'[x] = NoTask
           /\ team_members' # team_members

\* C23 as stated: after each team-roster change handled by the team sync
\* hook every member of the team has exactly one participant row in the team
\* conversation and nobody else has one: the participant set equals the
\* team's current member set.
C23_TeamParticipantsAreTheRoster ==
    [][ TeamSyncCompletes =>
          /\ TeamConv \in conversations'
          /\ {p.user : p \in {q \in participants' : q.conversation = TeamConv}} = team_members'
          /\ \A u \in team_members' :
                Cardinality({q \in participants' : q.conversation = TeamConv /\ q.user = u}) = 1
       ]_vars

\* the step completes a roster change of the judges handled by
\* sync_judges_conversation_members: its closing loop has run
JudgesSyncCompletes ==
    \E w \in Workers : tasks[w].pc = "ensure" /\ tasks'[w] = NoTask

\* C24 as stated: after each judge-roster change handled by the judges sync
\* hook the judges conversation has a participant row for every current
\* judge and for the organization's organizer, and a user who is neither a
\* judge nor the organizer has none.
C24_JudgesParticipantsAreTheRoster ==
    [][ JudgesSyncCompletes =>
          /\ JudgesConv \in conversations'
          /\ {p.user : p \in {q \in participants' : q.conversation = JudgesConv}}
                = judges' \cup {OrgOrganizer} ]_vars

\* the part of C23 that holds: a completed post_add leaves exactly one row
\* for every user it added, a post_remove or post_clear leaves no row for a
\* user it took off the roster, and only members and the team organizer
\* ever have a row
C23_SyncFollowsEachEvent ==
    [][ /\ \A w \in Workers :
             ( /\ tasks[w].pc = "bulk_create" /\ tasks[w].kind = "team"
               /\ tasks'[w] = NoTask /\ team_members' = team_members ) =>
                 \A u \in tasks[w].pk_set :
                    Cardinality({q \in participants' :
                                    q.conversation = TeamConv /\ q.user = u}) = 1
        /\ ( /\ \A x \in Workers : tasks[x] = NoTask /\ tasks'[x] = NoTask
             /\ team_members' # team_members ) =>
               \A u \in team_members \ team_members' :
                  {q \in participants' : q.conversation = TeamConv /\ q.user = u} = {}
        /\ {p.user : p \in {q \in participants' : q.conversation = TeamConv}}
              \subseteq team_members' \cup {TeamOrganizer} ]_vars

\* the part of C24 that holds: after each judge-roster change the
\* organization's organizer has exactly one row, and a user who is neither a
\* judge nor the organizer has none
C24_StaffEnsuredAndRemovedGone ==
    [][ JudgesSyncCompletes =>
          /\ Cardinality({q \in participants' :
                            q.conversation = JudgesConv /\ q.user = OrgOrganizer}) = 1
          /\ {p.user : p \in {q \in participants' : q.conversation = JudgesConv}}
                \subseteq judges' \cup {OrgOrganizer} ]_vars

\* connection k is Open and its user has no participant row for its conversation
OpenWithoutRow(k) ==
    conns[k].status = "Open" /\ ~HasRow(conns[k].conversation, conns[k].user)

\* C25: a change of the participant rows closes and deregisters no
\* connection; an Open connection whose user has no row any more stays Open
\* and registered in its conversation's group until its own disconnect, and
\* every event published for a message of the conversation reaches it.
C25_RemovedParticipantStillReceives ==
    [][ /\ participants' # participants => (conns' = conns /\ groups' = groups)
        /\ \A k \in Conns : OpenWithoutRow(k) =>
              /\ \/ conns'[k] = conns[k] /\ k \in groups'[conns[k].conversation]
                 \/ last = Idle /\ last'.op = "disconnect" /\ last'.conn = k
              /\ ( /\ last = Idle
                   /\ last'.published # "none"
                   /\ messages'[last'.pk].conversation = conns[k].conversation ) =>
                     /\ Len(outbox'[k]) = 1
                     /\ outbox'[k][1].event # "error"
                     /\ outbox'[k][1].data.id = last'.pk ]_vars

\* C25 witness: an Open connection whose user has lost the participant row
\* has just received the `message` event of a message sent by someone else
C25_Witness ==
    \E k \in Conns :
        /\ OpenWithoutRow(k)
        /\ last.published = "chat.message"
        /\ outbox[k] # <<>>
        /\ outbox[k][1].event = "message"
        /\ outbox[k][1].data.sender_id # conns[k].user

\* the step publishes an event of one of the given types for a message
Publishes(types) == last = Idle /\ last'.published \in types

\* C26 as stated: a connection registered in the conversation's group
\* throughout gets no `message_updated` or `message_deleted` event for a
\* message before the `message` event of that message.
C26_MessageEventComesFirst ==
    [][ ( /\ Publishes({"chat.message_updated", "chat.message_deleted"})
          /\ outbox'[Observer] # <<>> ) =>
            last'.pk \in DOMAIN replica ]_vars

\* C27 as stated: once a `message_deleted` event has been emitted for a
\* message, no `message_updated` and no second `message_deleted` event is
\* emitted for it.
C27_DeletedIsFinal ==
    [][ ( /\ Publishes({"chat.message_updated", "chat.message_deleted"})
          /\ last'.pk \in DOMAIN replica ) =>
            ~replica[last'.pk].is_deleted ]_vars

\* C27, the interleaving of C18 seen from the client: an edit that passed its
\* deleted check before the delete, and saved after it, has just published
\* `message_updated` for a message whose `message_deleted` the client has applied
C27_Witness ==
    /\ last.published = "chat.message_updated"
    /\ last.pk \in DOMAIN replica
    /\ replica[last.pk].is_deleted
    /\ messages[last.pk].is_deleted
    /\ messages[last.pk].content = <<"b">>
    /\ outbox[Observer] # <<>>

\* every command has finished and every frame has been applied
Quiescent == last = Idle /\ \A k \in Conns : tasks[k] = NoTask

\* C28 as stated: for a client registered before any message exists and
\* never disconnected, once all commands have finished the messages it has
\* seen, with the content, edited_at and deleted flag of the last event
\* received for each, are the persisted messages of the conversation.
C28_ReplicaEqualsStore ==
    (Quiescent /\ conns[Observer].status = "Open") =>
        /\ DOMAIN replica = {m \in DOMAIN messages :
                                messages[m].conversation = conns[Observer].conversation}
        /\ \A m \in DOMAIN replica :
              /\ replica[m].content = messages[m].content
              /\ replica[m].edited_at = messages[m].edited_at
              /\ replica[m].is_deleted = messages[m].is_deleted

\* C29: every non-empty inbound text frame, whatever JSON value it decodes
\* to, is handled to the end: the handler either runs one store mutation or
\* sends exactly one error event to the sender, and the connection stays Open
ErrorEventsTo(k, frames) == Cardinality({i \in DOMAIN frames[k] : frames[k][i].event = "error"})
C29_EveryFrameHandled ==
    [][ \A k \in Conns :
          ( /\ last = Idle
            /\ last'.op = "receive" /\ last'.conn = k
            /\ last'.req.kind # "empty" ) =>
              /\ conns'[k].status = "Open"
              /\ \/ last'.outcome = "ok" /\ ErrorEventsTo(k, outbox') = 0
                 \/ last'.outcome # "ok" /\ messages' = messages
                                        /\ ErrorEventsTo(k, outbox') = 1 ]_vars

\* a frame that decodes to a JSON list has just ended the consumer
C29_Witness ==
    /\ last.op = "receive" /\ last.outcome = "raised"
    /\ last.req.kind = "list"
    /\ conns[last.conn].status = "Closed" /\ conns[last.conn].close_code = 1011
    /\ outbox = NoFrames

\* the same holds of every frame that decodes to an object whose `content`,
\* when the action reads it, is a string
C29_StringContentHandled ==
    [][ \A k \in Conns :
          ( /\ last = Idle
            /\ last'.op = "receive" /\ last'.conn = k
            /\ last'.req.kind # "empty"
            /\ ~RaisesAttributeError(last'.req) ) =>
              /\ conns'[k].status = "Open"
              /\ \/ last'.outcome = "ok" /\ ErrorEventsTo(k, outbox') = 0
                 \/ last'.outcome # "ok" /\ messages' = messages
                                        /\ ErrorEventsTo(k, outbox') = 1 ]_vars

====
